---- MODULE Spec2Model ----
(***************************************************************************)
(* Calendar grid text renderer of gcalcli (src/gcalcli/gcal.py):           *)
(* Width Measurer (_printed_len), Cell Text Cutter (_get_cut_index,        *)
(* _next_cut, _word_cut), Week Bucketizer (_get_week_events) and Grid      *)
(* Renderer (_GraphEvents).                                                *)
(*                                                                         *)
(* Strings are sequences of one-character strings.  The alphabet has a     *)
(* narrow letter "a", a double-width glyph WIDE (East Asian Width class W), *)
(* the space, the newline, the dash and the characters of a clock time.    *)
(* Instants are integers counting slots of 24/SlotsPerDay hours; slot 0 is *)
(* midnight of a Sunday.                                                   *)
(***************************************************************************)
EXTENDS Integers, Sequences, FiniteSets, TLC

VARIABLES
    \* --- Cell Text Cutter driven for one column (lines 557-573) ---
    c_text,      \* the line text the drain started from
    c_width,     \* options["cal_width"]
    c_line,      \* the text now at the front of the bucket ("" once popped)
    c_passes,    \* passes of the body loop spent on this line so far
    c_ret,       \* what _get_cut_index returned in the last pass; in the
                 \* measurer's specification, what _printed_len returned
    c_cell       \* what the last pass printed: text and padding

cutVars == <<c_text, c_width, c_line, c_passes, c_ret, c_cell>>

VARIABLES
    \* --- shared by the Week Bucketizer and the Grid Renderer ---
    options,     \* self.options: cal_width, cal_monday, cal_weekend, ...
    now          \* self.now

VARIABLES
    \* --- one call of _get_week_events, one event of the loop per step ---
    b_start_dt,            \* start_dt
    b_end_dt,              \* end_dt
    b_event_list,          \* event_list
    b_n,                   \* events of event_list the loop has been through
    b_week_events,         \* week_events
    b_now_marker_printed,  \* now_marker_printed
    b_exc                  \* "" or the exception that ended the call

weekVars == <<b_start_dt, b_end_dt, b_event_list, b_n, b_week_events,
              b_now_marker_printed, b_exc>>

VARIABLES
    \* --- one call of _GraphEvents ---
    cmd,                   \* "calw" or "calm"
    start_datetime,        \* the argument, moved to its week start for calm
    count,                 \* number of weeks
    event_list,            \* the argument, then without the started events
    pc,                    \* "call", "DateRow", "Body", "WeekEnd", "done", "raised"
    week_i,                \* i, the index of the week being rendered
    cur_month,             \* month of the start_datetime argument
    start_week_datetime,
    end_week_datetime,
    week_events,           \* the buckets the body loop drains
    out,                   \* rows written to the printer so far
    exc,                   \* "" or the exception that ended the call
    returned,              \* what _get_week_events returned, week by week
    caller_event_list      \* the list object the caller passed as event_list

renderVars == <<cmd, start_datetime, count, event_list, pc, week_i, cur_month,
                start_week_datetime, end_week_datetime, week_events, out, exc,
                returned, caller_event_list>>

VARIABLES
    \* --- one call of _retry_with_backoff ---
    r_n,         \* n, the index of the attempt the loop is at
    r_pc,        \* "idle", "loop", "returned" or "raised"
    r_log,       \* what method.execute() did, attempt by attempt
    r_sleeps,    \* the n of every time.sleep((2**n) + random.random())
    r_result     \* the value returned or the exception raised

retryVars == <<r_n, r_pc, r_log, r_sleeps, r_result>>

VARIABLES
    \* --- one call of ModifyEvents with work = _delete_event ---
    d_search_text,     \* search_text
    d_expert,          \* expert, kept in self.expert
    d_ignore_started,  \* options["ignore_started"]
    d_ignore_declined, \* options["ignore_declined"]
    d_event_list,      \* the events found: as the API listed them, and from
                       \* the end of _search_for_events on sorted by start
    d_pc,              \* "idle", "call", "iterate", "returned", "raised", "exit"
    d_i,               \* events of event_list the loop has been through
    d_selected,        \* selected
    d_log,             \* events handed to _delete_event, with the answer read
    d_requests,        \* event ids of the delete requests issued, in order
    d_status           \* exit status of sys.exit, or the exception raised

deleteVars == <<d_search_text, d_expert, d_ignore_started, d_ignore_declined,
                d_event_list, d_pc,
                d_i, d_selected, d_log, d_requests, d_status>>

VARIABLES
    \* --- one call of _edit_event ---
    e_allday,          \* options["allday"]
    e_default_reminders, \* options["default_reminders"]
    e_override_color,  \* options["override_color"]
    e_event,           \* event, the dict being edited
    e_first,           \* the event as it was when the call began
    e_prev,            \* the event as it was before the last answer
    e_vals,            \* the answers given so far, lower-cased
    e_pc,              \* "idle", "prompt", "returned", "saved", "raised", "exit"
    e_status,          \* exit status of sys.exit, or the exception raised
    e_body             \* body of the patch request sent by save

editVars == <<e_allday, e_default_reminders, e_override_color, e_event, e_first,
              e_prev, e_vals, e_pc, e_status, e_body>>

VARIABLES
    \* --- one call of QuickAddEvent ---
    q_cals,              \* self.cals, the ids of the selected calendars
    q_reminders,         \* reminders
    q_default_reminders, \* options["default_reminders"]
    q_url,               \* self.details.get("url")
    q_pc,                \* "idle", "call", "added", "patched", "returned", "raised"
    q_requests,          \* the requests sent, in order
    q_event,             \* event, the response of quickAdd
    q_new_event,         \* new_event, Absent while the name is not bound
    q_printed,           \* the link printed
    q_result             \* the value returned or the exception raised

quickVars == <<q_cals, q_reminders, q_default_reminders, q_url, q_pc, q_requests,
               q_event, q_new_event, q_printed, q_result>>

VARIABLES
    \* --- one call of _select_cals ---
    s_all_cals,        \* self.all_cals: summary and colorSpec of each calendar
    s_selected_names,  \* selected_names: name and color of each
    s_cals,            \* self.cals, as positions in all_cals
    s_pc,              \* "idle", "call", "names", "done", "raised"; after
                       \* AddEvent "inserted" (the insert request was made for
                       \* the calendar self.cals[0]) or "raised"
    s_n,               \* names the loop has been through
    s_prev_cals,       \* all_cals as it was before the last name
    s_matches          \* matches of the last name

selectVars == <<s_all_cals, s_selected_names, s_cals, s_pc, s_n, s_prev_cals,
                s_matches>>

apiVars == <<retryVars, deleteVars, editVars, quickVars, selectVars>>

vars == <<cutVars, options, now, weekVars, renderVars, apiVars>>

----------------------------------------------------------------------------
(* Bounds of the model *)

MaxLen == 5        \* longest line text drawn for the cutter
MaxWidth == 3      \* largest column width drawn for the cutter
SlotsPerDay == 2   \* instants per day: slot 0 of a day is midnight
MaxEvents == 2     \* longest event list drawn for one week window
MaxAllDay == 9     \* longest all-day event drawn, in days
MaxMonth == 9      \* last month of 2023 drawn for a month view
MaxFound == 2      \* longest list of events found for a bulk delete
MaxEdits == 2      \* most answers given to one "Edit?" loop
MaxCalendars == 2  \* longest calendar list drawn for the selection

----------------------------------------------------------------------------
(* Characters and Python string primitives *)

NL == "\n"
SP == " "
DASH == "-"
WIDE == "CJK"      \* one codepoint of East Asian Width class W (U+4E2D)
FULL == "FW"       \* one codepoint of class F (U+FF21)
HALF == "HW"       \* one codepoint of class H (U+FF71)
AMBI == "AMB"      \* one codepoint of class A (U+00A1)

Alphabet == {"a", WIDE, SP, NL}

RECURSIVE StringsOfLen(_)
StringsOfLen(n) ==
    IF n = 0 THEN {<<>>}
    ELSE {<<c>> \o s : c \in Alphabet, s \in StringsOfLen(n - 1)}

Strings(n) == UNION {StringsOfLen(k) : k \in 0..n}

\* str.isspace for one character
isspace(c) == c \in {SP, NL}

\* s[:k] for k >= 0
Take(s, k) == SubSeq(s, 1, IF k < Len(s) THEN k ELSE Len(s))

\* s[k:] for k >= 0
Drop(s, k) == SubSeq(s, k + 1, Len(s))

RECURSIVE lstrip(_)
lstrip(s) ==
    IF s = <<>> THEN <<>>
    ELSE IF isspace(Head(s)) THEN lstrip(Tail(s)) ELSE s

RECURSIVE rstrip(_)
rstrip(s) ==
    IF s = <<>> THEN <<>>
    ELSE IF isspace(s[Len(s)]) THEN rstrip(SubSeq(s, 1, Len(s) - 1)) ELSE s

strip_right_only(s) == rstrip(s)

\* str.strip()
strip(s) == rstrip(lstrip(s))

UpperCase ==
    <<"A", "B", "C", "D", "E", "F", "G", "H", "I", "J", "K", "L", "M",
      "N", "O", "P", "Q", "R", "S", "T", "U", "V", "W", "X", "Y", "Z">>
LowerCase ==
    <<"a", "b", "c", "d", "e", "f", "g", "h", "i", "j", "k", "l", "m",
      "n", "o", "p", "q", "r", "s", "t", "u", "v", "w", "x", "y", "z">>

lower_char(c) ==
    IF \E k \in 1..26 : UpperCase[k] = c
    THEN LowerCase[CHOOSE k \in 1..26 : UpperCase[k] = c]
    ELSE c

lower_keep_case(s) == s

\* str.lower()
lower(s) == [k \in 1..Len(s) |-> lower_char(s[k])]

\* str.find(c): 0-based index of the first occurrence, -1 when absent
find(s, c) ==
    IF \E k \in 1..Len(s) : s[k] = c
    THEN (CHOOSE k \in 1..Len(s) : s[k] = c /\ \A j \in 1..(k - 1) : s[j] # c) - 1
    ELSE -1

\* length of the first whitespace-free run of a string that starts with one
RECURSIVE WordLen(_)
WordLen(s) ==
    IF s = <<>> \/ isspace(Head(s)) THEN 0 ELSE 1 + WordLen(Tail(s))

\* str.split(): the maximal whitespace-free runs, in order
RECURSIVE split(_)
split(s) ==
    IF s = <<>> THEN <<>>
    ELSE IF isspace(Head(s)) THEN split(Tail(s))
    ELSE <<Take(s, WordLen(s))>> \o split(Drop(s, WordLen(s)))

\* len(" ".join(words[:i]))
RECURSIVE JoinLen(_, _)
JoinLen(words, i) ==
    IF i <= 0 THEN 0
    ELSE IF i = 1 THEN Len(words[1])
    ELSE JoinLen(words, i - 1) + 1 + Len(words[i])

----------------------------------------------------------------------------
(* Width Measurer *)

\* unicodedata.east_asian_width on the model's alphabet
east_asian_width(c) ==
    IF c = WIDE THEN "W"
    ELSE IF c = FULL THEN "F"
    ELSE IF c = HALF THEN "H"
    ELSE IF c = AMBI THEN "A"
    ELSE IF c = NL THEN "N"
    ELSE "Na"

UNIWIDTH_ambiguous_wide == [W |-> 2, F |-> 2, N |-> 1, Na |-> 1, H |-> 1, A |-> 2]

UNIWIDTH == [W |-> 2, F |-> 2, N |-> 1, Na |-> 1, H |-> 1, A |-> 1]

RECURSIVE _printed_len(_)
_printed_len(string) ==
    IF string = <<>> THEN 0
    ELSE UNIWIDTH[east_asian_width(Head(string))] + _printed_len(Tail(string))

----------------------------------------------------------------------------
(* Cell Text Cutter.  A result is a record: kind "pair" carries            *)
(* (print_len, cut_idx); kind "None" is Python's None; any other kind is   *)
(* the exception the call raised.                                          *)

Pair(p, c) == [kind |-> "pair", print_len |-> p, cut_idx |-> c]
NoneRet == [kind |-> "None", print_len |-> 0, cut_idx |-> 0]
Raise(error) == [kind |-> error, print_len |-> 0, cut_idx |-> 0]
Unset == [kind |-> "unset", print_len |-> 0, cut_idx |-> 0]

RECURSIVE WordCutFrom_strict(_, _, _, _)
WordCutFrom_strict(word, k, stop, cal_width) ==
    IF k > Len(word) THEN NoneRet
    ELSE LET stop2 == stop + _printed_len(<<word[k]>>)
         IN IF stop2 > cal_width THEN Pair(stop2, k)
            ELSE WordCutFrom_strict(word, k + 1, stop2, cal_width)

_word_cut_strict(word, cal_width) == WordCutFrom_strict(word, 1, 0, cal_width)

\* the loop of _word_cut from character index k (1-based) with `stop` so far
RECURSIVE WordCutFrom(_, _, _, _)
WordCutFrom(word, k, stop, cal_width) ==
    IF k > Len(word) THEN NoneRet
    ELSE LET stop2 == stop + _printed_len(<<word[k]>>)
         IN IF stop2 >= cal_width THEN Pair(stop2, k)
            ELSE WordCutFrom(word, k + 1, stop2, cal_width)

_word_cut(word, cal_width) == WordCutFrom(word, 1, 0, cal_width)

\* sum(word_lens) once the first n words have been measured
RECURSIVE SumWordLens(_, _)
SumWordLens(words, n) ==
    IF n = 0 THEN 0 ELSE SumWordLens(words, n - 1) + _printed_len(words[n])

\* the loop of _next_cut at 0-based word index i with print_len so far
RECURSIVE NextCutFrom(_, _, _, _)
NextCutFrom(words, i, print_len, cal_width) ==
    IF i >= Len(words)
    THEN \* loop exhausted: the return after the loop reads the loop variable i
         IF Len(words) = 0 THEN Raise("UnboundLocalError")
         ELSE Pair(print_len, JoinLen(words, Len(words) - 1))
    ELSE LET word == words[i + 1]
         IN IF _printed_len(word) + print_len >= cal_width
            THEN LET cut_idx == JoinLen(words, i)
                 IN IF cut_idx = 0 THEN _word_cut(word, cal_width)
                    ELSE Pair(print_len, cut_idx)
            ELSE NextCutFrom(words, i + 1, SumWordLens(words, i + 1) + i, cal_width)

_next_cut(string, cal_width) == NextCutFrom(split(string), 0, 0, cal_width)

_get_cut_index_strict(event_string, cal_width) ==
    LET print_len == _printed_len(event_string)
        idx == find(event_string, NL)
    IN IF idx > -1 /\ idx < cal_width
       THEN Pair(_printed_len(Take(event_string, idx)), Len(Take(event_string, idx)))
       ELSE IF print_len <= cal_width
            THEN Pair(print_len, Len(event_string))
            ELSE _next_cut(event_string, cal_width)

_get_cut_index(event_string, cal_width) ==
    LET print_len == _printed_len(event_string)
        idx == find(event_string, NL)
    IN IF idx > -1 /\ idx <= cal_width
       THEN Pair(_printed_len(Take(event_string, idx)), Len(Take(event_string, idx)))
       ELSE IF print_len <= cal_width
            THEN Pair(print_len, Len(event_string))
            ELSE _next_cut(event_string, cal_width)

----------------------------------------------------------------------------
(* One column of one pass of the body loop (lines 557-573): cut the front  *)
(* line, print the fitted prefix with its padding, requeue the trimmed     *)
(* remainder.  Unpacking None raises TypeError.                            *)

\* " " * n
Blanks(n) == [k \in 1..(IF n > 0 THEN n ELSE 0) |-> SP]

DrainFront(title, cal_width) ==
    LET r == _get_cut_index(title, cal_width)
        ret == IF r.kind = "None" THEN Raise("TypeError") ELSE r
    IN IF ret.kind # "pair"
       THEN [ret |-> ret, printed |-> <<>>, padding |-> <<>>, trimmed_title |-> title]
       ELSE [ret |-> ret,
             printed |-> Take(title, ret.cut_idx),
             padding |-> Blanks(cal_width - ret.print_len),
             trimmed_title |-> strip(Drop(title, ret.cut_idx))]

----------------------------------------------------------------------------
(* Instants, dates and events *)

Day == SlotsPerDay                 \* timedelta(days=1), in slots
HoursPerSlot == 24 \div SlotsPerDay

DayOf(dt) == dt \div Day           \* the date of an instant
hour(dt) == (dt % Day) * HoursPerSlot
minute(dt) == 0

\* int(dt.strftime("%w")): 0 is Sunday; day 0 of the time line is a Sunday
strftime_w(dt) == DayOf(dt) % 7

Digits == <<"0", "1", "2", "3", "4", "5", "6", "7", "8", "9">>
TwoDigits(n) == <<Digits[(n \div 10) + 1], Digits[(n % 10) + 1]>>

\* dt.strftime("%H:%M")
strftime_HM(dt) == TwoDigits(hour(dt)) \o <<":">> \o TwoDigits(minute(dt))

\* dt.strftime("%I:%M").lstrip("0") + dt.strftime("%p").lower()
strftime_IMp(dt) ==
    LET h12 == IF hour(dt) % 12 = 0 THEN 12 ELSE hour(dt) % 12
        IM == TwoDigits(h12) \o <<":">> \o TwoDigits(minute(dt))
        stripped == IF Head(IM) = "0" THEN Tail(IM) ELSE IM
    IN stripped \o (IF hour(dt) < 12 THEN <<"a", "m">> ELSE <<"p", "m">>)

\* days_since_epoch divides timegm by the positive constant 86400 in floating
\* point; the value is kept as the number of seconds, its numerator
SecondsPerSlot == HoursPerSlot * 3600
days_since_epoch(dt) == dt * SecondsPerSlot

is_all_day(event) ==
    /\ hour(event.s) = 0
    /\ minute(event.s) = 0
    /\ hour(event.e) = 0
    /\ minute(event.e) = 0

\* An event: s, e instants; summary; colorId ("" when the event has none);
\* gcalcli_cal, the owning calendar; _GetAllEvents sets the key on every
\* event it lists (line 992), so every event of a list has present = TRUE
Cal(role, spec) == [present |-> TRUE, accessRole |-> role, colorSpec |-> spec]

Event(s, e, summary, colorId, cal) ==
    [s |-> s, e |-> e, summary |-> summary, colorId |-> colorId, gcalcli_cal |-> cal]

\* details._valid_title: the title of the event
_valid_title(event) == event.summary

----------------------------------------------------------------------------
(* Week Bucketizer *)

ACCESS_OWNER == "owner"
ACCESS_WRITER == "writer"
ACCESS_READER == "reader"
ACCESS_FREEBUSY == "freeBusyReader"

ansi_codes ==
    ("1" :> "brightblue") @@ ("2" :> "brightgreen") @@ ("3" :> "brightmagenta")
    @@ ("4" :> "magenta") @@ ("5" :> "brightyellow") @@ ("6" :> "brightred")
    @@ ("7" :> "brightcyan") @@ ("8" :> "brightblack") @@ ("9" :> "blue")
    @@ ("10" :> "green") @@ ("11" :> "red")

_calendar_color_spec_first(event, override_color) ==
    IF ~event.gcalcli_cal.present THEN "default"
    ELSE LET cal == event.gcalcli_cal
         IN IF cal.colorSpec # "" THEN cal.colorSpec
            ELSE IF override_color
            THEN IF event.colorId \in DOMAIN ansi_codes
                 THEN ansi_codes[event.colorId] ELSE "KeyError"
            ELSE IF cal.accessRole = ACCESS_OWNER THEN options.color_owner
            ELSE IF cal.accessRole = ACCESS_WRITER THEN options.color_writer
            ELSE IF cal.accessRole = ACCESS_READER THEN options.color_reader
            ELSE IF cal.accessRole = ACCESS_FREEBUSY THEN options.color_freebusy
            ELSE "default"

\* the colour, or "KeyError" when the colour identifier is not in the table
_calendar_color(event, override_color) ==
    IF ~event.gcalcli_cal.present THEN "default"
    ELSE LET cal == event.gcalcli_cal
         IN IF override_color
            THEN IF event.colorId \in DOMAIN ansi_codes
                 THEN ansi_codes[event.colorId] ELSE "KeyError"
            ELSE IF cal.colorSpec # "" THEN cal.colorSpec
            ELSE IF cal.accessRole = ACCESS_OWNER THEN options.color_owner
            ELSE IF cal.accessRole = ACCESS_WRITER THEN options.color_writer
            ELSE IF cal.accessRole = ACCESS_READER THEN options.color_reader
            ELSE IF cal.accessRole = ACCESS_FREEBUSY THEN options.color_freebusy
            ELSE "default"

_cal_monday(day_num) ==
    IF options.cal_monday \/ ~options.cal_weekend
    THEN (IF day_num - 1 < 0 THEN 6 ELSE day_num - 1)
    ELSE day_num

_event_time_in_range(e_time, r_start, r_end) == e_time >= r_start /\ e_time < r_end

_event_spans_time(e_start, e_end, time_point) == e_start < time_point /\ e_end >= time_point

_format_title(event, allday) ==
    LET titlestr == _valid_title(event)
    IN IF allday THEN titlestr
       ELSE IF options.military THEN strftime_HM(event.s) \o <<SP>> \o titlestr
       ELSE strftime_IMp(event.s) \o <<SP>> \o titlestr

EventTitle(title, color) == [title |-> title, color |-> color]

\* cal_width * "-"
Dashes(n) == [k \in 1..(IF n > 0 THEN n ELSE 0) |-> DASH]

\* week_events[day].append(line), day counted from 0
AppendTo(buckets, day, line) ==
    [buckets EXCEPT ![day + 1] = Append(@, line)]

\* for day in range(lo, hi + 1): week_events[day].append(line)
RECURSIVE AppendRange(_, _, _, _)
AppendRange(buckets, lo, hi, line) ==
    IF lo > hi THEN buckets
    ELSE AppendRange(AppendTo(buckets, lo, line), lo + 1, hi, line)

\* lines 312-315: now_in_week
NowInWeek(start_dt, end_dt) == ~(now < start_dt \/ now > end_dt)

\* line 342: the marker goes ahead of the event
NowBeforeEvent(event) == days_since_epoch(now) < days_since_epoch(event.s)

NowDuringEvent_any_day(event, event_end_date, event_allday) ==
    now >= event.s /\ now <= event_end_date

NowDuringEvent_strict(event, event_end_date, event_allday) ==
    now > event.s /\ now <= event_end_date /\ ~event_allday

\* lines 356-360: the marker is during the event
NowDuringEvent(event, event_end_date, event_allday) ==
    now >= event.s /\ now <= event_end_date /\ ~event_allday

\* One turn of the loop `for event in event_list` of _get_week_events
\* (lines 318-393) on the loop state st = [week_events, now_marker_printed, exc]
WeekEventStep(st, event, start_dt, end_dt) ==
    LET now_in_week == NowInWeek(start_dt, end_dt)
        event_daynum == _cal_monday(strftime_w(event.s))
        event_allday == is_all_day(event)
        event_end_date == IF event_allday THEN event.e - Day ELSE event.e
        event_is_today == _event_time_in_range(event.s, start_dt, end_dt)
        event_continues_today == _event_spans_time(event.s, event_end_date, start_dt)
        try_marker == now_in_week /\ ~st.now_marker_printed
        divider == try_marker /\ NowBeforeEvent(event)
        color_as_now_marker ==
            /\ try_marker /\ ~divider
            /\ NowDuringEvent(event, event_end_date, event_allday)
        with_divider ==
            IF divider
            THEN AppendTo(st.week_events, event_daynum,
                          EventTitle(<<NL>> \o Dashes(options.cal_width),
                                     options.color_now_marker))
            ELSE st.week_events
        event_color ==
            IF color_as_now_marker THEN options.color_now_marker
            ELSE IF options.override_color /\ event.colorId # ""
                 THEN _calendar_color(event, TRUE)
                 ELSE _calendar_color(event, FALSE)
        titlestr == _format_title(event, event_allday)
        line == EventTitle(<<NL>> \o titlestr, event_color)
        end_daynum ==
            IF event_end_date > end_dt THEN 6
            ELSE _cal_monday(strftime_w(event_end_date))
        first_daynum == IF event_daynum > end_daynum THEN 0 ELSE event_daynum
    IN IF ~(event_is_today \/ (event_allday /\ event_continues_today))
       THEN st
       ELSE IF event_color = "KeyError"
       THEN [st EXCEPT !.week_events = with_divider,
                       !.now_marker_printed = @ \/ divider,
                       !.exc = "KeyError"]
       ELSE [week_events |->
                 IF event_allday /\ event.s < event_end_date
                 THEN AppendRange(with_divider, first_daynum, end_daynum, line)
                 ELSE AppendTo(with_divider, event_daynum, line),
             now_marker_printed |-> st.now_marker_printed \/ divider \/ color_as_now_marker,
             exc |-> st.exc]

\* week_events = [[] for _ in range(7)]
EmptyWeek == [d \in 1..7 |-> <<>>]

WeekLoopStart == [week_events |-> EmptyWeek, now_marker_printed |-> FALSE, exc |-> ""]

\* the loop over event_list from its k-th event on
RECURSIVE WeekLoop(_, _, _, _, _)
WeekLoop(st, events, k, start_dt, end_dt) ==
    IF k > Len(events) \/ st.exc # "" THEN st
    ELSE WeekLoop(WeekEventStep(st, events[k], start_dt, end_dt),
                  events, k + 1, start_dt, end_dt)

\* the whole call: the final loop state, whose week_events is returned
_get_week_events(start_dt, end_dt, events) ==
    WeekLoop(WeekLoopStart, events, 1, start_dt, end_dt)

----------------------------------------------------------------------------
(* Calendar dates: day 0 of the time line is Sunday 1 January 2023; the   *)
(* days before it are those of December 2022                               *)

MonthLens == <<31, 28, 31, 30, 31, 30, 31, 31, 30, 31, 30, 31>>

MonthAbbr ==
    <<<<"J", "a", "n">>, <<"F", "e", "b">>, <<"M", "a", "r">>,
      <<"A", "p", "r">>, <<"M", "a", "y">>, <<"J", "u", "n">>,
      <<"J", "u", "l">>, <<"A", "u", "g">>, <<"S", "e", "p">>,
      <<"O", "c", "t">>, <<"N", "o", "v">>, <<"D", "e", "c">>>>

MonthNames ==
    <<<<"J", "a", "n", "u", "a", "r", "y">>,
      <<"F", "e", "b", "r", "u", "a", "r", "y">>,
      <<"M", "a", "r", "c", "h">>,
      <<"A", "p", "r", "i", "l">>,
      <<"M", "a", "y">>,
      <<"J", "u", "n", "e">>,
      <<"J", "u", "l", "y">>,
      <<"A", "u", "g", "u", "s", "t">>,
      <<"S", "e", "p", "t", "e", "m", "b", "e", "r">>,
      <<"O", "c", "t", "o", "b", "e", "r">>,
      <<"N", "o", "v", "e", "m", "b", "e", "r">>,
      <<"D", "e", "c", "e", "m", "b", "e", "r">>>>

\* date(2001, 1, i + 1).strftime("%A"), i = 0..6: 1 January 2001 was a Monday
DayNames ==
    <<<<"M", "o", "n", "d", "a", "y">>,
      <<"T", "u", "e", "s", "d", "a", "y">>,
      <<"W", "e", "d", "n", "e", "s", "d", "a", "y">>,
      <<"T", "h", "u", "r", "s", "d", "a", "y">>,
      <<"F", "r", "i", "d", "a", "y">>,
      <<"S", "a", "t", "u", "r", "d", "a", "y">>,
      <<"S", "u", "n", "d", "a", "y">>>>

\* month (1-based) and day of month of the d-th day counted from month m
RECURSIVE DateFrom(_, _)
DateFrom(d, m) ==
    IF d < MonthLens[m] THEN [year |-> 2023, month |-> m, day |-> d + 1]
    ELSE DateFrom(d - MonthLens[m], m + 1)

DateOf(dt) ==
    IF DayOf(dt) < 0 THEN [year |-> 2022, month |-> 12, day |-> 32 + DayOf(dt)]
    ELSE DateFrom(DayOf(dt), 1)

\* the first instant of month m
RECURSIVE MonthStart(_)
MonthStart(m) == IF m = 1 THEN 0 ELSE MonthStart(m - 1) + MonthLens[m - 1] * Day

strftime_d(dt) == TwoDigits(DateOf(dt).day)                 \* "%d"
strftime_b(dt) == MonthAbbr[DateOf(dt).month]               \* "%b"
strftime_d_b(dt) == strftime_d(dt) \o <<SP>> \o strftime_b(dt)   \* "%d %b"
strftime_B_Y(dt) ==                                         \* "%B %Y"
    MonthNames[DateOf(dt).month] \o <<SP>>
        \o TwoDigits(DateOf(dt).year \div 100) \o TwoDigits(DateOf(dt).year % 100)

----------------------------------------------------------------------------
(* Grid Renderer.  The printer receives text fragments; the model keeps    *)
(* them row by row.  A row has a kind, for a border row the three art      *)
(* glyphs build_divider was given, and the cells between the vertical      *)
(* bars, each a text and the colour it was printed in.                     *)

Cell(text, color) == [text |-> text, color |-> color]
Row(kind, art, cells) == [kind |-> kind, art |-> art, cells |-> cells]

days_all == Len(DayNames)

\* days = 7 if cal_weekend else 5
days == IF options.cal_weekend THEN 7 ELSE 5

\* cal_width * art["hrz"]
day_width_line == [k \in 1..(IF options.cal_width > 0 THEN options.cal_width ELSE 0) |-> "hrz"]

\* cal_width * " "
empty_day == Blanks(options.cal_width)

build_divider(left, center, right) ==
    Row("border", <<left, center, right>>,
        [j \in 1..days |-> Cell(day_width_line, options.color_border)])

week_bottom_as_divider == build_divider("lte", "crs", "rte")

week_top == build_divider("ulc", "ute", "urc")
week_divider == build_divider("lte", "crs", "rte")
week_bottom == build_divider("llc", "bte", "lrc")

\* the localized day names in column order
day_names ==
    LET names == [k \in 1..days |-> DayNames[k]]
    IN IF ~options.cal_monday \/ ~options.cal_weekend
       THEN Drop(names, 6) \o Take(names, 6)
       ELSE names

\* text padded with blanks to cal_width
Padded(text) == text \o Blanks(options.cal_width - _printed_len(text))

\* while len(event_list) and event_list[0]["s"] < start_datetime: drop it
RECURSIVE DropStarted(_, _)
DropStarted(events, start) ==
    IF events # <<>> /\ Head(events).s < start
    THEN DropStarted(Tail(events), start)
    ELSE events

caller_list_after_drop_inplace(events, start) == DropStarted(events, start)

\* lines 449-450: event_list = event_list[1:] binds the local name to a new
\* list; the list object of the caller keeps all its elements
caller_list_after_drop(events, start) == events

\* lines 472-499: the title bar, the weekday labels and the divider under them
Headers(command, start) ==
    (IF command = "calm"
     THEN <<build_divider("ulc", "hrz", "urc"),
            Row("month_title", <<>>,
                <<Cell(strftime_B_Y(start)
                       \o Blanks(options.cal_width * days + (days - 1)
                                 - _printed_len(strftime_B_Y(start))),
                       options.color_date)>>),
            build_divider("lte", "ute", "rte")>>
     ELSE <<week_top>>)
    \o <<Row("labels", <<>>,
             [j \in 1..days |-> Cell(Padded(day_names[j]), options.color_date)]),
         week_divider>>

\* lines 511-534: the date line of the week that starts at start_week
DateLine(command, start_week, month) ==
    Row("date", <<>>,
        [j \in 1..days |->
            LET dt == start_week + (j - 1) * Day
                d == IF command = "calw" THEN strftime_d_b(dt)
                     ELSE IF month # strftime_b(dt) THEN <<>> ELSE strftime_d(dt)
                today == DateOf(now) = DateOf(dt)
            IN Cell(Padded(IF today THEN d \o <<SP, "*", "*">> ELSE d),
                    IF today THEN options.color_now_marker ELSE options.color_date)])

Requeue_at_back(bucket, curr_event, trimmed_title) ==
    IF trimmed_title = <<>> THEN Tail(bucket)
    ELSE Append(Tail(bucket), [curr_event EXCEPT !.title = trimmed_title])

\* lines 568-571: pop the drained line, or put the remainder in its place
Requeue(bucket, curr_event, trimmed_title) ==
    IF trimmed_title = <<>> THEN Tail(bucket)
    ELSE <<[curr_event EXCEPT !.title = trimmed_title]>> \o Tail(bucket)

NextWeekWindow_overlapping(end_week) ==
    [start |-> end_week - Day, end |-> end_week + 6 * Day]

\* lines 541-542: the window of the next week starts where this one ends
NextWeekWindow(end_week) ==
    [start |-> end_week, end |-> end_week + 7 * Day]

\* lines 549-574: the columns j.. of one pass of the body loop, on
\* st = [week_events, cells, done, exc]
RECURSIVE BodyColumns(_, _)
BodyColumns(st, j) ==
    IF j >= days \/ st.exc # "" THEN st
    ELSE IF st.week_events[j + 1] = <<>>
    THEN BodyColumns([st EXCEPT !.cells = Append(@, Cell(empty_day, options.color_border))],
                     j + 1)
    ELSE LET curr_event == st.week_events[j + 1][1]
             d == DrainFront(curr_event.title, options.cal_width)
         IN IF d.ret.kind # "pair" THEN [st EXCEPT !.exc = d.ret.kind]
            ELSE BodyColumns(
                   [week_events |->
                        [st.week_events EXCEPT ![j + 1] =
                            Requeue(@, curr_event, d.trimmed_title)],
                    cells |-> Append(st.cells, Cell(d.printed \o d.padding, curr_event.color)),
                    done |-> FALSE,
                    exc |-> ""],
                   j + 1)

----------------------------------------------------------------------------
(* CalQuery, month view (lines 1194-1213): the week count handed to        *)
(* _GraphEvents for the month that starts at the instant start             *)

CalQueryCount(start) ==
    LET days_in_month == MonthLens[DateOf(start).month]
        w == strftime_w(start)
        offset_days == IF options.cal_monday THEN (IF w - 1 < 0 THEN 6 ELSE w - 1) ELSE w
        total_days == days_in_month + offset_days
    IN (total_days \div 7) + (IF total_days % 7 # 0 THEN 1 ELSE 0)

----------------------------------------------------------------------------
(* _retry_with_backoff (lines 141-157).  The content of an HttpError is the *)
(* JSON body of the response; error["code"] is kept as its JSON text, so    *)
(* that the number 403 and the string "403" are different values            *)

max_retries == 5

JsonNumber403 == "403"          \* "code": 403
JsonString403 == "\"403\""      \* "code": "403"
JsonNumber500 == "500"          \* "code": 500

\* an outcome of method.execute(): a value, or an HttpError with a body
Executed == [ok |-> TRUE, code |-> "", reason |-> ""]
HttpError(code, reason) == [ok |-> FALSE, code |-> code, reason |-> reason]

\* lines 148-150: error.get("code") == "403" and
\* error.get("errors")[0].get("reason") in {...}
IsRateLimited(error) ==
    /\ error.code = JsonString403
    /\ error.reason \in {"rateLimitExceeded", "userRateLimitExceeded"}

Returned(attempt) == [kind |-> "value", attempt |-> attempt]
Raised(error) == [kind |-> error, attempt |-> 0]

----------------------------------------------------------------------------
(* _delete_event (lines 829-855) as the work of ModifyEvents and            *)
(* _iterate_events.  st = [requests, status, pc]; delete_outcome is what    *)
(* self.delete did: "" when it returned, else the exception of              *)
(* _retry_with_backoff                                                     *)

\* lines 1056-1065: the calendar's own attendee entry, the first one if there
\* are more, says declined.  event.attendees is <<>> when the event has no
\* such key, else <<the list>>
_DeclinedEvent(event) ==
    /\ event.attendees # <<>>
    /\ LET attendees == SelectSeq(event.attendees[1],
                                  LAMBDA a : a.email = event.gcalcli_cal.id)
       IN attendees # <<>> /\ attendees[1].responseStatus = "declined"

\* lines 969-972: the event is passed over
IgnoredEvent(event, ignore_started, ignore_declined) ==
    \/ ignore_started /\ event.s < now
    \/ ignore_declined /\ _DeclinedEvent(event)

\* event_list.sort(key=operator.itemgetter("s")) (line 1052): a stable sort,
\* by insertion of the last element into the sorted rest
RECURSIVE sort_by_s(_)
sort_by_s(events) ==
    IF events = <<>> THEN <<>>
    ELSE LET front == sort_by_s(SubSeq(events, 1, Len(events) - 1))
             last == events[Len(events)]
             keep == Cardinality({k \in 1..Len(front) : front[k].s <= last.s})
         IN SubSeq(front, 1, keep) \o <<last>> \o SubSeq(front, keep + 1, Len(front))

\* self.delete(cal_id, event_id) and the message after it
DeleteRequest(st, event, delete_outcome) ==
    [requests |-> Append(st.requests, event.id),
     status |-> delete_outcome,
     pc |-> IF delete_outcome = "" THEN "iterate" ELSE "raised"]

_delete_event(st, event, expert, val, delete_outcome) ==
    IF expert THEN DeleteRequest(st, event, delete_outcome)
    ELSE IF val = <<>> \/ lower(val) = <<"n">> THEN st
    ELSE IF lower(val) = <<"y">> THEN DeleteRequest(st, event, delete_outcome)
    ELSE IF lower(val) = <<"q">> THEN [st EXCEPT !.status = "0", !.pc = "exit"]
    ELSE [st EXCEPT !.status = "1", !.pc = "exit"]

----------------------------------------------------------------------------
(* _edit_event (lines 869-955).  An event is a record of the keys the       *)
(* function reads and writes, start and end records of the keys date,      *)
(* dateTime and timeZone.  The value of a key is Present(v), or Absent      *)
(* when the dict does not have the key.                                    *)

Absent == <<>>
Present(v) == <<v>>

TimeValue(date, dateTime, timeZone) ==
    [date |-> date, dateTime |-> dateTime, timeZone |-> timeZone]

NoEvent ==
    [summary |-> Absent, location |-> Absent, description |-> Absent,
     colorId |-> Absent, reminders |-> Absent,
     start |-> TimeValue(Absent, Absent, Absent),
     end |-> TimeValue(Absent, Absent, Absent)]

\* datetime.isoformat(): the text of an instant
isoformat(dt) == [iso |-> dt]

\* date.isoformat(): the text of a day, as the API sends all-day events
isoformat_date(day) == [isodate |-> day]

VALID_OVERRIDE_COLORS ==
    <<"lavender", "sage", "grape", "flamingo", "banana", "tangerine",
      "peacock", "graphite", "blueberry", "basil", "tomato">>

ColorIds == <<"1", "2", "3", "4", "5", "6", "7", "8", "9", "10", "11">>

\* str(VALID_OVERRIDE_COLORS.index(color) + 1)
get_override_color_id(color) ==
    ColorIds[CHOOSE k \in 1..11 : VALID_OVERRIDE_COLORS[k] = color]

\* event["gcalcli_cal"]["timeZone"]
CalTimeZone == "Europe/London"

\* lines 890-900: {k: event[k] for k in keys if k in event}; an Absent key
\* is not in the body
mod_event(event) == event

\* lines 947-953: the start and the end are written after every answer that
\* does not leave the loop
WriteStartEnd(event, allday, start_dt, duration) ==
    IF allday
    THEN [event EXCEPT !.start.date = Present(isoformat(start_dt)),
                       !.end.date = Present(isoformat(start_dt + duration))]
    ELSE [event EXCEPT !.start.dateTime = Present(isoformat(start_dt)),
                       !.start.timeZone = Present(CalTimeZone),
                       !.end.dateTime = Present(isoformat(start_dt + duration)),
                       !.end.timeZone = Present(CalTimeZone)]

\* One turn of the loop of _edit_event on st = [event, pc, status, body,
\* override_color].  val is the answer; inp holds what the prompts and the
\* clock give: text (title, location, description), color, when (the text
\* typed and the instant it parses to), duration, reminders, clock
\* (datetime.now) and
\* save_outcome ("" or the exception of _retry_with_backoff)
EditTurn(st, val, inp, allday, default_reminders) ==
    LET v == lower(val)
        leave(to, status) == [st EXCEPT !.pc = to, !.status = status]
        go_on(event, start_dt, duration) ==
            [st EXCEPT !.event = WriteStartEnd(event, allday, start_dt, duration)]
    IN IF val = <<>> \/ v = <<"n">> THEN leave("returned", "")
       ELSE IF v = <<"c">> /\ inp.color # ""
       THEN [go_on([st.event EXCEPT !.colorId = Present(get_override_color_id(inp.color))],
                   inp.clock, 0)
                EXCEPT !.override_color = TRUE]
       ELSE IF v = <<"s">>
       THEN [st EXCEPT !.body = mod_event(st.event),
                       !.pc = IF inp.save_outcome = "" THEN "saved" ELSE "raised",
                       !.status = inp.save_outcome]
       ELSE IF v = <<"q">> THEN leave("exit", "0")
       ELSE IF v = <<"t">> /\ inp.text # <<>>
       THEN go_on([st.event EXCEPT !.summary = Present(inp.text)], inp.clock, 0)
       ELSE IF v = <<"l">> /\ inp.text # <<>>
       THEN go_on([st.event EXCEPT !.location = Present(inp.text)], inp.clock, 0)
       ELSE IF v = <<"w">> /\ inp.when.text # <<>>
       THEN go_on(st.event, inp.when.dt, 0)
       ELSE IF v = <<"g">>
       THEN go_on(st.event, inp.clock, inp.duration)
       ELSE IF v = <<"r">>
       THEN go_on([st.event EXCEPT !.reminders =
                       Present(IF default_reminders
                               THEN [useDefault |-> TRUE, overrides |-> <<>>]
                               ELSE [useDefault |-> FALSE, overrides |-> inp.reminders])],
                  inp.clock, 0)
       ELSE IF v = <<"d">> /\ inp.text # <<>>
       THEN go_on([st.event EXCEPT !.description = Present(inp.text)], inp.clock, 0)
       ELSE leave("exit", "1")

----------------------------------------------------------------------------
(* QuickAddEvent (lines 1215-1241) and _get_reminders (lines 301-307)       *)

\* the dict of reminders, or Absent for None
_get_reminders(reminders, default_reminders) ==
    IF default_reminders THEN Present([useDefault |-> TRUE, overrides |-> <<>>])
    ELSE IF reminders # <<>>
    THEN Present([useDefault |-> FALSE, overrides |-> reminders])
    ELSE Absent

\* a request of the events resource
Request(method, calendarId, body) ==
    [method |-> method, calendarId |-> calendarId, body |-> body]

\* the event the API answers with: quickAdd creates it, patch returns it
\* with the body applied
ApiEvent(calendarId, reminders) ==
    [id |-> "new", calendarId |-> calendarId, htmlLink |-> "link",
     reminders |-> reminders]

----------------------------------------------------------------------------
(* _select_cals (lines 104-131)                                            *)

CalName(name, color) == [name |-> name, color |-> color]

\* re.search(pattern, string, flags=re.I) for a pattern of letters only:
\* the pattern occurs in the string, case ignored
re_search(pattern, string) ==
    \E k \in 0..(Len(string) - Len(pattern)) :
        SubSeq(lower(string), k + 1, k + Len(pattern)) = lower(pattern)

\* the loop `for self_cal in self.all_cals` from the k-th calendar on, on
\* st = [all_cals, matches]
RECURSIVE MatchCals(_, _, _)
MatchCals(st, k, cal_name) ==
    IF k > Len(st.all_cals) THEN st
    ELSE IF cal_name.name = st.all_cals[k].summary
    THEN [all_cals |-> [st.all_cals EXCEPT ![k].colorSpec = Present(cal_name.color)],
          matches |-> <<k>>]
    ELSE IF re_search(cal_name.name, st.all_cals[k].summary)
    THEN MatchCals([all_cals |-> [st.all_cals EXCEPT ![k].colorSpec = Present(cal_name.color)],
                    matches |-> Append(st.matches, k)],
                   k + 1, cal_name)
    ELSE MatchCals(st, k + 1, cal_name)

----------------------------------------------------------------------------
(* Inputs *)

\* self.options as the argument parser fills it
Options(cal_width, cal_monday, cal_weekend, override_color, military) ==
    [cal_width |-> cal_width, cal_monday |-> cal_monday,
     cal_weekend |-> cal_weekend, override_color |-> override_color,
     military |-> military,
     color_owner |-> "cyan", color_writer |-> "green",
     color_reader |-> "magenta", color_freebusy |-> "white",
     color_date |-> "yellow", color_now_marker |-> "brightred",
     color_border |-> "brightwhite"]

\* start -= timedelta(days=_cal_monday(int(start.strftime("%w")))): the start
\* of the week a day is in (lines 504-505)
WeekStartOf(start) == start - _cal_monday(strftime_w(start)) * Day

\* the week window the week specifications look at: the window of January's
\* month view that holds day 10, Wednesday 11 January
WindowStart == WeekStartOf(10 * Day)

Summaries == <<<<"a">>, <<"b">>, <<"c">>, <<"d">>>>
OwnCal == Cal(ACCESS_OWNER, "")

\* events that start on one of the days `offsets` (counted from the window
\* start) at the first or at the last slot of the day and last one of `durs`
\* slots
EventsAt(offsets, durs, summary) ==
    {Event(WindowStart + o * Day + t, WindowStart + o * Day + t + d, summary, "", OwnCal) :
        o \in offsets, t \in {0, Day - 1}, d \in durs}

\* event lists of n events sorted by start, as _search_for_events sorts them
RECURSIVE SortedLists(_, _, _)
SortedLists(n, offsets, durs) ==
    IF n = 0 THEN {<<>>}
    ELSE UNION {{Append(l, e) : e \in {x \in EventsAt(offsets, durs, Summaries[n]) :
                                           n = 1 \/ l[n - 1].s <= x.s}} :
                   l \in SortedLists(n - 1, offsets, durs)}

EventLists(n, offsets, durs) == UNION {SortedLists(k, offsets, durs) : k \in 0..n}

\* instants from one slot before the window to one slot after it
NowAround == (WindowStart - 1)..(WindowStart + 7 * Day + 1)

----------------------------------------------------------------------------
(* Specifications *)

NoCell == [printed |-> <<>>, padding |-> <<>>]

CutIdle ==
    /\ c_text = <<>> /\ c_width = 1 /\ c_line = <<>> /\ c_passes = 0
    /\ c_ret = Unset /\ c_cell = NoCell

WeekIdle ==
    /\ b_start_dt = 0 /\ b_end_dt = 0 /\ b_event_list = <<>> /\ b_n = 0
    /\ b_week_events = EmptyWeek /\ b_now_marker_printed = FALSE /\ b_exc = ""

RenderIdle ==
    /\ cmd = "calw" /\ start_datetime = 0 /\ count = 0 /\ event_list = <<>>
    /\ pc = "idle" /\ week_i = 0 /\ cur_month = <<>>
    /\ start_week_datetime = 0 /\ end_week_datetime = 0
    /\ week_events = EmptyWeek /\ out = <<>> /\ exc = "" /\ returned = <<>>
    /\ caller_event_list = event_list

SharedIdle ==
    /\ options = Options(1, TRUE, TRUE, FALSE, TRUE)
    /\ now = 0

NoResult == [kind |-> "none", attempt |-> 0]

RetryIdle ==
    /\ r_n = 0 /\ r_pc = "idle" /\ r_log = <<>> /\ r_sleeps = <<>>
    /\ r_result = NoResult

DeleteIdle ==
    /\ d_search_text = <<>> /\ d_expert = FALSE /\ d_ignore_started = FALSE
    /\ d_ignore_declined = FALSE
    /\ d_event_list = <<>> /\ d_pc = "idle" /\ d_i = 0 /\ d_selected = 0
    /\ d_log = <<>> /\ d_requests = <<>> /\ d_status = ""

EditIdle ==
    /\ e_allday = FALSE /\ e_default_reminders = FALSE /\ e_override_color = FALSE
    /\ e_event = NoEvent /\ e_first = NoEvent /\ e_prev = NoEvent
    /\ e_vals = <<>> /\ e_pc = "idle" /\ e_status = "" /\ e_body = NoEvent

QuickIdle ==
    /\ q_cals = <<>> /\ q_reminders = <<>> /\ q_default_reminders = FALSE
    /\ q_url = FALSE /\ q_pc = "idle" /\ q_requests = <<>> /\ q_event = <<>>
    /\ q_new_event = <<>> /\ q_printed = <<>> /\ q_result = <<>>

SelectIdle ==
    /\ s_all_cals = <<>> /\ s_selected_names = <<>> /\ s_cals = <<>>
    /\ s_pc = "idle" /\ s_n = 0 /\ s_prev_cals = <<>> /\ s_matches = <<>>

ApiIdle == RetryIdle /\ DeleteIdle /\ EditIdle /\ QuickIdle /\ SelectIdle

(* The cutter: any text, any width >= 1 *)

InitCut ==
    /\ c_text \in Strings(MaxLen)
    /\ c_width \in 1..MaxWidth
    /\ c_line = c_text
    /\ c_passes = 0
    /\ c_ret = Unset
    /\ c_cell = NoCell
    /\ SharedIdle /\ WeekIdle /\ RenderIdle /\ ApiIdle

\* one pass over the column whose bucket holds the line
CutPass ==
    /\ c_line # <<>>
    /\ c_ret.kind \in {"unset", "pair"}
    /\ LET d == DrainFront(c_line, c_width)
       IN /\ c_ret' = d.ret
          /\ c_cell' = [printed |-> d.printed, padding |-> d.padding]
          /\ c_line' = d.trimmed_title
          /\ c_passes' = c_passes + 1
    /\ UNCHANGED <<c_text, c_width, options, now, weekVars, renderVars,
                   apiVars>>

NextCut == CutPass

SpecCut == InitCut /\ [][NextCut]_vars

(* The measurer: any string over one glyph of every width class *)

WidthAlphabet == {"a", NL, WIDE, FULL, HALF, AMBI}

RECURSIVE StringsOver(_, _)
StringsOver(alphabet, n) ==
    IF n = 0 THEN {<<>>}
    ELSE {<<>>} \cup {<<c>> \o t : c \in alphabet, t \in StringsOver(alphabet, n - 1)}

InitMeasure ==
    /\ c_text \in StringsOver(WidthAlphabet, MaxLen)
    /\ c_width = 1
    /\ c_line = c_text
    /\ c_passes = 0
    /\ c_ret = Unset
    /\ c_cell = NoCell
    /\ SharedIdle /\ WeekIdle /\ RenderIdle /\ ApiIdle

\* one call of _printed_len(string) (lines 396-401): the sum it returns
Measure ==
    /\ c_passes = 0
    /\ c_ret' = _printed_len(c_text)
    /\ c_passes' = 1
    /\ UNCHANGED <<c_text, c_width, c_line, c_cell, options, now, weekVars, renderVars,
                   apiVars>>

NextMeasure == Measure

SpecMeasure == InitMeasure /\ [][NextMeasure]_vars

(* One call of the Week Bucketizer on the window of WindowStart *)

\* the arguments and the locals at entry, for the window of WindowStart
WeekCall ==
    /\ b_start_dt = WindowStart
    /\ b_end_dt = WindowStart + 7 * Day
    /\ b_n = 0
    /\ b_week_events = WeekLoopStart.week_events
    /\ b_now_marker_printed = WeekLoopStart.now_marker_printed
    /\ b_exc = WeekLoopStart.exc
    /\ CutIdle /\ RenderIdle /\ ApiIdle

\* one turn of the loop over event_list
WeekEvent ==
    /\ b_n < Len(b_event_list)
    /\ b_exc = ""
    /\ LET st == WeekEventStep([week_events |-> b_week_events,
                                now_marker_printed |-> b_now_marker_printed,
                                exc |-> b_exc],
                               b_event_list[b_n + 1], b_start_dt, b_end_dt)
       IN /\ b_week_events' = st.week_events
          /\ b_now_marker_printed' = st.now_marker_printed
          /\ b_exc' = st.exc
    /\ b_n' = b_n + 1
    /\ UNCHANGED <<b_start_dt, b_end_dt, b_event_list, options, now, cutVars, renderVars,
                   apiVars>>

NextWeek == WeekEvent

WeekOptions == {Options(3, m, w, FALSE, TRUE) : m \in BOOLEAN, w \in BOOLEAN}

\* up to MaxEvents short events around the two ends of the window
InitWeek ==
    /\ options \in WeekOptions
    /\ now \in NowAround
    /\ b_event_list \in EventLists(MaxEvents, {-1, 0, 6, 7}, {1, Day, 2 * Day})
    /\ WeekCall

SpecWeek == InitWeek /\ [][NextWeek]_vars

\* one all-day event of 1..MaxAllDay days that starts on any day of the week
\* before the window or of the window
InitAllDay ==
    /\ options \in WeekOptions
    /\ now \in NowAround
    /\ b_event_list \in
          {<<Event(WindowStart + o * Day, WindowStart + (o + n) * Day,
                   Summaries[1], "", OwnCal)>> : o \in (-7)..6, n \in 1..MaxAllDay}
    /\ WeekCall

SpecAllDay == InitAllDay /\ [][NextWeek]_vars

\* one event with every combination of colour identifier, owning calendar
\* and override mode; the calendar has one of the four access roles or
\* another one, and a colour of its own or none
ColorCals ==
    {Cal(role, spec) :
        role \in {ACCESS_OWNER, ACCESS_WRITER, ACCESS_READER, ACCESS_FREEBUSY, "none"},
        spec \in {"", "blue"}}

InitColor ==
    /\ options \in {Options(3, TRUE, TRUE, o, TRUE) : o \in BOOLEAN}
    /\ now \in (WindowStart - 1)..(WindowStart + 2)
    /\ b_event_list \in
          {<<Event(WindowStart + t, WindowStart + t + d, Summaries[1], id, cal)>> :
              t \in 0..1, d \in {1, Day}, id \in {"", "1", "11"}, cal \in ColorCals}
    /\ WeekCall

SpecColor == InitColor /\ [][NextWeek]_vars

(* One call of _GraphEvents *)

RenderOptions ==
    {Options(5, m, w, FALSE, TRUE) : m \in BOOLEAN, w \in BOOLEAN}
        \cup {Options(0, TRUE, TRUE, FALSE, TRUE)}

\* the state at entry of _GraphEvents
GraphCall ==
    /\ pc = "call" /\ week_i = 0 /\ cur_month = <<>>
    /\ start_week_datetime = 0 /\ end_week_datetime = 0
    /\ week_events = EmptyWeek /\ out = <<>> /\ exc = "" /\ returned = <<>>
    /\ caller_event_list = event_list
    /\ CutIdle /\ WeekIdle /\ ApiIdle

\* CalQuery("calm", ...) for January (lines 1194-1213): the month start, the
\* week count, and the list of _search_for_events, sorted by start, of up to
\* MaxEvents events that end after the month start: events around the end
\* of the week of WindowStart and events that began the day before the month
\* (day -1 of the time line, counted from WindowStart)
Init ==
    /\ options \in RenderOptions
    /\ cmd = "calm"
    /\ start_datetime = MonthStart(1)
    /\ count = CalQueryCount(MonthStart(1))
    /\ now \in (WindowStart + 7 * Day - 1)..(WindowStart + 7 * Day + 1)
    /\ event_list \in
          {l \in EventLists(MaxEvents, {0 - (WindowStart \div Day) - 1, 6, 7},
                             {1, 2 * Day}) :
              \A k \in 1..Len(l) : l[k].e > MonthStart(1)}
    /\ GraphCall

\* lines 447-507: drop the started events, print the headers, set the first week
GraphHeaders ==
    /\ pc = "call"
    /\ event_list' = DropStarted(event_list, start_datetime)
    /\ out' = out \o Headers(cmd, start_datetime)
    /\ cur_month' = strftime_b(start_datetime)
    /\ start_datetime' = IF cmd = "calm" THEN WeekStartOf(start_datetime) ELSE start_datetime
    /\ start_week_datetime' = start_datetime'
    /\ end_week_datetime' = start_datetime' + 7 * Day
    /\ pc' = IF count > 0 THEN "DateRow" ELSE "done"
    /\ caller_event_list' = caller_list_after_drop(caller_event_list, start_datetime)
    /\ UNCHANGED <<cmd, count, week_i, week_events, exc, returned, options, now, cutVars, weekVars,
                   apiVars>>

\* lines 510-542: print the date line, bucketize the week, move the window
DateRow ==
    /\ pc = "DateRow"
    /\ out' = Append(out, DateLine(cmd, start_week_datetime, cur_month))
    /\ LET r == _get_week_events(start_week_datetime, end_week_datetime, event_list)
       IN IF r.exc # ""
          THEN /\ exc' = r.exc /\ pc' = "raised"
               /\ UNCHANGED <<week_events, returned, start_week_datetime, end_week_datetime>>
          ELSE /\ week_events' = r.week_events
               /\ returned' = Append(returned, r.week_events)
               /\ start_week_datetime' = NextWeekWindow(end_week_datetime).start
               /\ end_week_datetime' = NextWeekWindow(end_week_datetime).end
               /\ pc' = "Body"
               /\ exc' = exc
    /\ UNCHANGED <<cmd, start_datetime, count, event_list, week_i, cur_month, options, now,
                   caller_event_list, cutVars, weekVars, apiVars>>

\* lines 544-578: one pass of the body loop over all the columns
BodyPass ==
    /\ pc = "Body"
    /\ LET st == BodyColumns([week_events |-> week_events, cells |-> <<>>,
                              done |-> TRUE, exc |-> ""], 0)
       IN /\ week_events' = st.week_events
          /\ out' = Append(out, Row("body", <<>>, st.cells))
          /\ exc' = st.exc
          /\ pc' = IF st.exc # "" THEN "raised" ELSE IF st.done THEN "WeekEnd" ELSE "Body"
    /\ UNCHANGED <<cmd, start_datetime, count, event_list, week_i, cur_month,
                   start_week_datetime, end_week_datetime, returned, options, now,
                   caller_event_list,
                   cutVars, weekVars, apiVars>>

\* lines 580-583: the divider under the week or the bottom of the grid
WeekEnd ==
    /\ pc = "WeekEnd"
    /\ out' = Append(out, IF week_i < count - 1 THEN week_divider ELSE week_bottom)
    /\ week_i' = week_i + 1
    /\ pc' = IF week_i + 1 < count THEN "DateRow" ELSE "done"
    /\ UNCHANGED <<cmd, start_datetime, count, event_list, cur_month,
                   start_week_datetime, end_week_datetime, week_events, exc, returned,
                   caller_event_list,
                   options, now, cutVars, weekVars, apiVars>>

Next == GraphHeaders \/ DateRow \/ BodyPass \/ WeekEnd

Spec == Init /\ [][Next]_vars

(* One call of _retry_with_backoff: every attempt returns a value or raises *)
(* an HttpError with one of the bodies below                                *)

ErrorCodes == {JsonNumber403, JsonString403, JsonNumber500}
ErrorReasons == {"rateLimitExceeded", "userRateLimitExceeded", "forbidden"}

Outcomes ==
    {Executed} \cup {HttpError(c, r) : c \in ErrorCodes, r \in ErrorReasons}

CoreIdle == CutIdle /\ SharedIdle /\ WeekIdle /\ RenderIdle

InitRetry ==
    /\ r_n = 0 /\ r_pc = "loop" /\ r_log = <<>> /\ r_sleeps = <<>>
    /\ r_result = NoResult
    /\ CoreIdle /\ DeleteIdle /\ EditIdle /\ QuickIdle /\ SelectIdle

\* lines 142-157: one turn of `for n in range(self.max_retries)`, with the
\* else clause of the loop when it was the last turn
Execute ==
    /\ r_pc = "loop"
    /\ r_n < max_retries
    /\ \E o \in Outcomes :
          /\ r_log' = Append(r_log, o)
          /\ IF o.ok
             THEN /\ r_pc' = "returned"
                  /\ r_result' = Returned(Len(r_log) + 1)
                  /\ UNCHANGED <<r_n, r_sleeps>>
             ELSE IF IsRateLimited(o)
             THEN /\ r_sleeps' = Append(r_sleeps, r_n)
                  /\ r_n' = r_n + 1
                  /\ IF r_n + 1 < max_retries
                     THEN UNCHANGED <<r_pc, r_result>>
                     ELSE r_pc' = "raised" /\ r_result' = Raised("GcalcliError")
             ELSE /\ r_pc' = "raised"
                  /\ r_result' = Raised("HttpError")
                  /\ UNCHANGED <<r_n, r_sleeps>>
    /\ UNCHANGED <<cutVars, options, now, weekVars, renderVars, deleteVars, editVars,
                   quickVars, selectVars>>

NextRetry == Execute

SpecRetry == InitRetry /\ [][NextRetry]_vars

(* One call of ModifyEvents(_delete_event, search_text, expert=...)          *)

\* what the user can type at "Delete? [N]o [y]es [q]uit: "
Answers ==
    {<<>>, <<"n">>, <<"N">>, <<"y">>, <<"Y">>, <<"q">>, <<"Q">>, <<"x">>,
     <<"y", "e", "s">>, <<SP>>}

\* what _retry_with_backoff did with a request (lines 141-157): "" when it
\* returned the answer, else the exception that left it, the HttpError of
\* the request or GcalcliError after max_retries rate-limited attempts
RetryOutcomes == {"", "HttpError", "GcalcliError"}

\* the attendees key of a found event: none, the calendar has declined,
\* the calendar has accepted, somebody else has declined
FoundAttendees ==
    {<<>>,
     <<<<[email |-> "cal1", responseStatus |-> "declined"]>>>>,
     <<<<[email |-> "cal1", responseStatus |-> "accepted"]>>>>,
     <<<<[email |-> "other", responseStatus |-> "declined"],
         [email |-> "cal1", responseStatus |-> "accepted"]>>>>}

\* lists of n events in the order the API lists them; the id of an event is
\* its position there, and it starts one slot before or after now
RECURSIVE FoundLists(_)
FoundLists(n) ==
    IF n = 0 THEN {<<>>}
    ELSE {Append(l, [id |-> n, s |-> t, gcalcli_cal |-> [id |-> "cal1"],
                     attendees |-> a]) :
             l \in FoundLists(n - 1), t \in {-1, 1}, a \in FoundAttendees}

InitDelete ==
    /\ d_search_text \in {<<>>, <<"a">>}
    /\ d_expert \in BOOLEAN
    /\ d_ignore_started \in BOOLEAN
    /\ d_ignore_declined \in BOOLEAN
    /\ d_event_list \in UNION {FoundLists(n) : n \in 0..MaxFound}
    /\ d_pc = "call" /\ d_i = 0 /\ d_selected = 0
    /\ d_log = <<>> /\ d_requests = <<>> /\ d_status = ""
    /\ CoreIdle /\ RetryIdle /\ EditIdle /\ QuickIdle /\ SelectIdle

\* lines 1298-1304 and 957-966: refuse the empty search, search (the list is
\* sorted by start, line 1052), keep expert, and return at once when nothing
\* was found
ModifyEvents ==
    /\ d_pc = "call"
    /\ IF d_search_text = <<>>
       THEN d_pc' = "raised" /\ d_status' = "GcalcliError"
            /\ d_event_list' = d_event_list
       ELSE /\ d_pc' = IF Len(d_event_list) = 0 THEN "returned" ELSE "iterate"
            /\ d_status' = d_status
            /\ d_event_list' = sort_by_s(d_event_list)
    /\ UNCHANGED <<d_search_text, d_expert, d_ignore_started, d_ignore_declined, d_i,
                   d_selected, d_log, d_requests>>
    /\ UNCHANGED <<cutVars, options, now, weekVars, renderVars, retryVars, editVars,
                   quickVars, selectVars>>

\* lines 968-985: one turn of `for event in event_list`, with work(event)
IterateEvent ==
    /\ d_pc = "iterate"
    /\ d_i < Len(d_event_list)
    /\ d_i' = d_i + 1
    /\ LET event == d_event_list[d_i + 1]
           last == d_i + 1 = Len(d_event_list)
       IN IF IgnoredEvent(event, d_ignore_started, d_ignore_declined)
          THEN /\ d_pc' = IF last THEN "returned" ELSE "iterate"
               /\ UNCHANGED <<d_selected, d_log, d_requests, d_status>>
          ELSE \E val \in (IF d_expert THEN {<<>>} ELSE Answers) :
               \E delete_outcome \in RetryOutcomes :
                  LET st == _delete_event([requests |-> d_requests, status |-> d_status,
                                           pc |-> "iterate"],
                                          event, d_expert, val, delete_outcome)
                  IN /\ d_selected' = d_selected + 1
                     /\ d_log' = Append(d_log, [id |-> event.id, asked |-> ~d_expert,
                                                val |-> val])
                     /\ d_requests' = st.requests
                     /\ d_status' = st.status
                     /\ d_pc' = IF st.pc = "iterate" /\ last THEN "returned" ELSE st.pc
    /\ UNCHANGED <<d_search_text, d_expert, d_ignore_started, d_ignore_declined,
                   d_event_list>>
    /\ UNCHANGED <<cutVars, options, now, weekVars, renderVars, retryVars, editVars,
                   quickVars, selectVars>>

NextDelete == ModifyEvents \/ IterateEvent

SpecDelete == InitDelete /\ [][NextDelete]_vars

(* One call of _edit_event on a timed or an all-day event                   *)

\* what the user can type at "Edit?"
EditAnswers ==
    {<<>>, <<"n">>, <<"s">>, <<"q">>, <<"t">>, <<"T">>, <<"l">>, <<"w">>,
     <<"g">>, <<"r">>, <<"c">>, <<"d">>, <<"x">>}

\* the event starts at instant 10 and ends at instant 12; the clock reads
\* 10 or 20
EditedEvents ==
    {[summary |-> Present(<<"a">>), location |-> Absent,
      description |-> Present(<<"b">>), colorId |-> Absent, reminders |-> Absent,
      start |-> TimeValue(Absent, Present(isoformat(10)), Present("UTC")),
      end |-> TimeValue(Absent, Present(isoformat(12)), Present("UTC"))],
     [summary |-> Present(<<"a">>), location |-> Present(<<"c">>),
      description |-> Absent, colorId |-> Present("1"),
      reminders |-> Present([useDefault |-> TRUE, overrides |-> <<>>]),
      start |-> TimeValue(Present(isoformat_date(5)), Absent, Absent),
      end |-> TimeValue(Present(isoformat_date(6)), Absent, Absent)]}

EditInputs ==
    [text : {<<>>, <<"x">>}, color : {"", "grape"},
     when : {[text |-> <<>>, dt |-> 0], [text |-> <<"x">>, dt |-> 14]},
     duration : {1}, reminders : {<<>>, <<"10m popup">>}, clock : {10, 20},
     save_outcome : RetryOutcomes]

InitEdit ==
    /\ e_allday \in BOOLEAN
    /\ e_default_reminders \in BOOLEAN
    /\ e_override_color = FALSE
    /\ e_event \in EditedEvents
    /\ e_first = e_event /\ e_prev = e_event
    /\ e_vals = <<>> /\ e_pc = "prompt" /\ e_status = "" /\ e_body = NoEvent
    /\ CoreIdle /\ RetryIdle /\ DeleteIdle /\ QuickIdle /\ SelectIdle

\* lines 870-955: one turn of `while True`
EditAnswer ==
    /\ e_pc = "prompt"
    /\ Len(e_vals) < MaxEdits
    /\ \E val \in EditAnswers : \E inp \in EditInputs :
          LET st == EditTurn([event |-> e_event, pc |-> "prompt", status |-> "",
                              body |-> e_body, override_color |-> e_override_color],
                             val, inp, e_allday, e_default_reminders)
          IN /\ e_event' = st.event
             /\ e_pc' = st.pc
             /\ e_status' = st.status
             /\ e_body' = st.body
             /\ e_override_color' = st.override_color
             /\ e_prev' = e_event
             /\ e_vals' = Append(e_vals, lower(val))
    /\ UNCHANGED <<e_allday, e_default_reminders, e_first>>
    /\ UNCHANGED <<cutVars, options, now, weekVars, renderVars, retryVars, deleteVars,
                   quickVars, selectVars>>

NextEdit == EditAnswer

SpecEdit == InitEdit /\ [][NextEdit]_vars

(* One call of QuickAddEvent with 0 to 3 calendars selected                 *)

SelectedCals == {<<>>, <<"c1">>, <<"c1", "c2">>, <<"c1", "c2", "c3">>}

InitQuickAdd ==
    /\ q_cals \in SelectedCals
    /\ q_reminders \in {<<>>, <<"10m popup">>, <<"10m popup", "1h email">>}
    /\ q_default_reminders \in BOOLEAN
    /\ q_url \in BOOLEAN
    /\ q_pc = "call" /\ q_requests = <<>> /\ q_event = Absent
    /\ q_new_event = Absent /\ q_printed = <<>> /\ q_result = <<>>
    /\ CoreIdle /\ RetryIdle /\ DeleteIdle /\ EditIdle /\ SelectIdle

\* lines 1217-1228: refuse unless one calendar is selected, send quickAdd
QuickAdd ==
    /\ q_pc = "call"
    /\ IF Len(q_cals) # 1
       THEN /\ q_pc' = "raised" /\ q_result' = <<"GcalcliError">>
            /\ UNCHANGED <<q_requests, q_event>>
       ELSE /\ q_requests' = Append(q_requests, Request("quickAdd", q_cals[1], Absent))
            /\ \E outcome \in RetryOutcomes :
                  IF outcome = ""
                  THEN /\ q_event' = Present(ApiEvent(q_cals[1], Absent))
                       /\ q_pc' = "added" /\ q_result' = q_result
                  ELSE /\ q_pc' = "raised" /\ q_result' = <<outcome>>
                       /\ q_event' = q_event
    /\ UNCHANGED <<q_cals, q_reminders, q_default_reminders, q_url, q_new_event, q_printed>>
    /\ UNCHANGED <<cutVars, options, now, weekVars, renderVars, retryVars, deleteVars,
                   editVars, selectVars>>

\* lines 1230-1235: patch the reminders in when there are any
PatchReminders ==
    /\ q_pc = "added"
    /\ LET rem == _get_reminders(q_reminders, q_default_reminders)
       IN IF rem = Absent
          THEN q_pc' = "patched" /\ UNCHANGED <<q_requests, q_new_event, q_result>>
          ELSE /\ q_requests' = Append(q_requests, Request("patch", q_cals[1], rem))
               /\ \E outcome \in RetryOutcomes :
                     IF outcome = ""
                     THEN /\ q_new_event' = Present(ApiEvent(q_cals[1], rem))
                          /\ q_pc' = "patched" /\ q_result' = q_result
                     ELSE /\ q_pc' = "raised" /\ q_result' = <<outcome>>
                          /\ q_new_event' = q_new_event
    /\ UNCHANGED <<q_cals, q_reminders, q_default_reminders, q_url, q_event, q_printed>>
    /\ UNCHANGED <<cutVars, options, now, weekVars, renderVars, retryVars, deleteVars,
                   editVars, selectVars>>

\* lines 1237-1241: print the link when asked to, return new_event; reading
\* the name while it is not bound raises UnboundLocalError
QuickAddReturn ==
    /\ q_pc = "patched"
    /\ IF q_new_event = Absent
       THEN /\ q_pc' = "raised" /\ q_result' = <<"UnboundLocalError">>
            /\ q_printed' = q_printed
       ELSE /\ q_printed' = IF q_url THEN <<q_new_event[1].htmlLink>> ELSE q_printed
            /\ q_pc' = "returned" /\ q_result' = <<q_new_event[1].id>>
    /\ UNCHANGED <<q_cals, q_reminders, q_default_reminders, q_url, q_requests, q_event,
                   q_new_event>>
    /\ UNCHANGED <<cutVars, options, now, weekVars, renderVars, retryVars, deleteVars,
                   editVars, selectVars>>

NextQuickAdd == QuickAdd \/ PatchReminders \/ QuickAddReturn

SpecQuickAdd == InitQuickAdd /\ [][NextQuickAdd]_vars

(* One call of _select_cals                                                *)

CalSummaries == {<<"W", "o", "r", "k">>, <<"w", "o", "r", "k">>,
                 <<"H", "o", "m", "e", "w", "o", "r", "k">>}

\* the names asked for; parse_cal_names gives every name one colour
RequestedNames ==
    {CalName(<<"W", "o", "r", "k">>, "red"), CalName(<<"w", "o", "r", "k">>, "blue"),
     CalName(<<"o", "m", "e">>, "default")}

\* calendar lists of length n in the order of
\* self.all_cals.sort(key=operator.itemgetter("accessRole")) (line 235):
\* "owner" is before "reader", and "reader" before "writer"
RECURSIVE CalLists(_)
CalLists(n) ==
    IF n = 0 THEN {<<>>}
    ELSE LET rank == <<ACCESS_OWNER, ACCESS_READER, ACCESS_WRITER>>
             RankOf(role) == CHOOSE q \in 1..3 : rank[q] = role
         IN {x \in {Append(l, [summary |-> t, accessRole |-> rank[r],
                               colorSpec |-> Absent]) :
                        l \in CalLists(n - 1), t \in CalSummaries, r \in 1..3} :
                n = 1 \/ RankOf(x[n - 1].accessRole) <= RankOf(x[n].accessRole)}

\* lists of distinct names
NameLists ==
    {<<>>} \cup {<<a>> : a \in RequestedNames}
           \cup {l \in {<<a, b>> : a \in RequestedNames, b \in RequestedNames} :
                    l[1].name # l[2].name}

InitSelect ==
    /\ s_all_cals \in UNION {CalLists(n) : n \in 1..MaxCalendars}
    /\ s_selected_names \in NameLists
    /\ s_cals = <<>>
    /\ s_pc = "call" /\ s_n = 0 /\ s_prev_cals = s_all_cals /\ s_matches = <<>>
    /\ CoreIdle /\ RetryIdle /\ DeleteIdle /\ EditIdle /\ QuickIdle

\* lines 105-110: refuse a second selection; no names selects every calendar
SelectCall ==
    /\ s_pc = "call"
    /\ IF s_cals # <<>> THEN s_pc' = "raised" /\ s_cals' = s_cals
       ELSE IF s_selected_names = <<>>
       THEN s_pc' = "done" /\ s_cals' = [k \in 1..Len(s_all_cals) |-> k]
       ELSE s_pc' = "names" /\ s_cals' = s_cals
    /\ UNCHANGED <<s_all_cals, s_selected_names, s_n, s_prev_cals, s_matches>>
    /\ UNCHANGED <<cutVars, options, now, weekVars, renderVars, retryVars, deleteVars,
                   editVars, quickVars>>

\* lines 112-131: one turn of `for cal_name in selected_names`
SelectName ==
    /\ s_pc = "names"
    /\ s_n < Len(s_selected_names)
    /\ LET st == MatchCals([all_cals |-> s_all_cals, matches |-> <<>>], 1,
                           s_selected_names[s_n + 1])
       IN /\ s_all_cals' = st.all_cals
          /\ s_matches' = st.matches
          /\ s_cals' = s_cals \o st.matches
    /\ s_prev_cals' = s_all_cals
    /\ s_n' = s_n + 1
    /\ s_pc' = IF s_n + 1 = Len(s_selected_names) THEN "done" ELSE "names"
    /\ UNCHANGED s_selected_names
    /\ UNCHANGED <<cutVars, options, now, weekVars, renderVars, retryVars, deleteVars,
                   editVars, quickVars>>

\* AddEvent, lines 1254-1296: unless one calendar is selected, the calendars
\* with write access are listed and self.cals becomes the one at the index
\* read (an index as Python takes it: negative ones count from the end); then
\* the insert request is made for self.cals[0]
AddEvent ==
    /\ s_pc = "done"
    /\ IF Len(s_cals) # 1
       THEN \E val \in (0 - MaxCalendars)..MaxCalendars :
               LET cals_with_write_perms ==
                       SelectSeq(s_cals, LAMBDA c : s_all_cals[c].accessRole
                                                       \in {ACCESS_OWNER, ACCESS_WRITER})
                   length == Len(cals_with_write_perms)
               IN IF val >= length \/ val < 0 - length
                  THEN s_pc' = "raised" /\ s_cals' = s_cals
                  ELSE /\ s_pc' = "inserted"
                       /\ s_cals' = <<cals_with_write_perms[IF val >= 0 THEN val + 1
                                                            ELSE length + val + 1]>>
       ELSE s_pc' = "inserted" /\ s_cals' = s_cals
    /\ UNCHANGED <<s_all_cals, s_selected_names, s_n, s_prev_cals, s_matches>>
    /\ UNCHANGED <<cutVars, options, now, weekVars, renderVars, retryVars, deleteVars,
                   editVars, quickVars>>

NextSelect == SelectCall \/ SelectName \/ AddEvent

SpecSelect == InitSelect /\ [][NextSelect]_vars

(* The month view as CalQuery calls _GraphEvents, for every month up to     *)
(* MaxMonth and every setting of the two week options                      *)

MonthOptions == {Options(1, m, w, FALSE, TRUE) : m \in BOOLEAN, w \in BOOLEAN}

\* lines 1194-1213 with no start text and no events found: now is the noon
\* of some day of the month
InitMonth ==
    /\ options \in MonthOptions
    /\ cmd = "calm"
    /\ start_datetime \in {MonthStart(m) : m \in 1..MaxMonth}
    /\ count = CalQueryCount(start_datetime)
    /\ now \in {start_datetime + 1, start_datetime + 27 * Day + 1}
    /\ event_list = <<>>
    /\ GraphCall

SpecMonth == InitMonth /\ [][Next]_vars

----------------------------------------------------------------------------
(* Vocabulary of the properties *)

\* number of visible day columns
VisibleColumns == IF options.cal_weekend THEN 7 ELSE 5

\* the event starts in [start, end), or is all-day and its span, the end
\* taken one day earlier, overlaps the window
Qualifies(ev, start, end) ==
    \/ ev.s >= start /\ ev.s < end
    \/ is_all_day(ev) /\ ev.s < end /\ ev.e - Day >= start

\* an all-day event of more than one day
MultiDay(ev) == is_all_day(ev) /\ ev.s < ev.e - Day

\* the text of the line an event puts into a bucket
LineTitle(ev) == <<NL>> \o _format_title(ev, is_all_day(ev))

\* the bucket index of the day an instant is on, in a window that starts at start
ColumnOf(dt, start) == DayOf(dt) - DayOf(start)

IsDivider(line) ==
    /\ line.title = <<NL>> \o [k \in 1..options.cal_width |-> DASH]
    /\ line.color = options.color_now_marker

LinesIn(bucket, title) == Cardinality({p \in 1..Len(bucket) : bucket[p].title = title})
DividersIn(bucket) == Cardinality({p \in 1..Len(bucket) : IsDivider(bucket[p])})
RecolouredIn(bucket) ==
    Cardinality({p \in 1..Len(bucket) :
                    bucket[p].color = options.color_now_marker /\ ~IsDivider(bucket[p])})

RECURSIVE SumOver(_, _, _)
SumOver(buckets, F(_), n) ==
    IF n = 0 THEN 0 ELSE SumOver(buckets, F, n - 1) + F(buckets[n])

DividersOfWeek(buckets) == SumOver(buckets, DividersIn, Len(buckets))
RecolouredOfWeek(buckets) == SumOver(buckets, RecolouredIn, Len(buckets))

\* the call of _get_week_events has been through the whole event list
WeekDone == b_n = Len(b_event_list) /\ b_exc = ""

\* the line text is one a bucket can hold at its front: a line the
\* Bucketizer built ("\n" + ...) or a trimmed remainder
IsFrontLine(t) == t # <<>> /\ (Head(t) = NL \/ (~isspace(Head(t)) /\ ~isspace(t[Len(t)])))

----------------------------------------------------------------------------
(* Properties *)

\* C1: cutting a bucket's front line and requeueing the trimmed remainder
\* drains the line in at most len(text) passes, for any width >= 1: no pass
\* raises, and the passes spent plus the characters left never exceed
\* len(text)
C1_DrainWithinLen ==
    IsFrontLine(c_text) =>
        /\ c_ret.kind \in {"unset", "pair"}
        /\ c_passes + Len(c_line) <= Len(c_text)

\* C1 witness: a bucket line of four or more characters drained in exactly
\* len(text) passes
C1_Witness ==
    /\ Len(c_text) >= 4 /\ Head(c_text) = NL
    /\ c_line = <<>> /\ c_passes = Len(c_text)

\* C2: for any non-empty text and any width >= 1 the cutter returns a pair
\* whose character count is at least 1
C2_CharCountPositive ==
    (c_passes = 1 /\ c_text # <<>>) => (c_ret.kind = "pair" /\ c_ret.cut_idx >= 1)

\* C4: a qualifying all-day event of several days has exactly one title line
\* in every visible bucket whose day is from its start day to its last
\* included day, and none in any other visible bucket
C4_AllDaySpan ==
    WeekDone =>
        \A k \in 1..Len(b_event_list) :
            LET ev == b_event_list[k]
            IN (MultiDay(ev) /\ Qualifies(ev, b_start_dt, b_end_dt)) =>
                  \A d \in 0..(VisibleColumns - 1) :
                      LinesIn(b_week_events[d + 1], LineTitle(ev)) =
                          IF /\ b_start_dt + d * Day >= ev.s
                             /\ b_start_dt + d * Day <= ev.e - Day
                          THEN 1 ELSE 0

\* the first event of the list that qualifies for the window, 0 when none
FirstQualifying ==
    IF \E k \in 1..Len(b_event_list) : Qualifies(b_event_list[k], b_start_dt, b_end_dt)
    THEN CHOOSE k \in 1..Len(b_event_list) :
            /\ Qualifies(b_event_list[k], b_start_dt, b_end_dt)
            /\ \A j \in 1..(k - 1) : ~Qualifies(b_event_list[j], b_start_dt, b_end_dt)
    ELSE 0

\* C7: when now is inside the window and strictly before the start of the
\* first qualifying event, the week has exactly one divider, and it is in
\* that event's day bucket ahead of the event's own line
C7_DividerAheadOfFirst ==
    (WeekDone /\ FirstQualifying # 0) =>
        LET ev == b_event_list[FirstQualifying]
            bucket == b_week_events[ColumnOf(ev.s, b_start_dt) + 1]
        IN (now >= b_start_dt /\ now < b_end_dt /\ now < ev.s) =>
              /\ DividersOfWeek(b_week_events) = 1
              /\ \E p \in 1..Len(bucket) :
                    /\ IsDivider(bucket[p])
                    /\ \E q \in (p + 1)..Len(bucket) : bucket[q].title = LineTitle(ev)

\* now is within the closed span of a non-all-day event that starts in the window
SpansNow(ev) ==
    /\ ~is_all_day(ev)
    /\ ev.s >= b_start_dt /\ ev.s < b_end_dt
    /\ ev.s <= now /\ now <= ev.e

\* the line of the event is in its day bucket, once, in the now-marker colour
MarkerColoured(ev) ==
    LET bucket == b_week_events[ColumnOf(ev.s, b_start_dt) + 1]
    IN /\ LinesIn(bucket, LineTitle(ev)) = 1
       /\ \A p \in 1..Len(bucket) :
             bucket[p].title = LineTitle(ev) => bucket[p].color = options.color_now_marker

\* C6 as stated: every non-all-day qualifying event whose closed span holds
\* now has its line in the now-marker colour, and its day bucket has no divider
C6_EverySpanningEvent ==
    WeekDone =>
        \A k \in 1..Len(b_event_list) :
            LET ev == b_event_list[k]
            IN SpansNow(ev) =>
                  /\ MarkerColoured(ev)
                  /\ DividersIn(b_week_events[ColumnOf(ev.s, b_start_dt) + 1]) = 0

\* C6 amended: when now is not after the window's end, the first event of the
\* list that is not all-day, starts in the window and holds now in its closed
\* span has its line in the now-marker colour, and no bucket of the week has
\* a divider
C6_FirstSpanningEvent ==
    WeekDone =>
        \A k \in 1..Len(b_event_list) :
            LET ev == b_event_list[k]
            IN (/\ SpansNow(ev)
                /\ now <= b_end_dt
                /\ \A j \in 1..(k - 1) : ~SpansNow(b_event_list[j])) =>
                  /\ MarkerColoured(ev)
                  /\ DividersOfWeek(b_week_events) = 0

\* C6 witness: two events hold now, the first is recoloured and the second
\* keeps its calendar's colour
C6_Witness ==
    /\ WeekDone /\ Len(b_event_list) = 2
    /\ SpansNow(b_event_list[1]) /\ SpansNow(b_event_list[2])
    /\ MarkerColoured(b_event_list[1]) /\ ~MarkerColoured(b_event_list[2])
    /\ now = b_event_list[2].s

\* the colour configured for an access role, "" when the role has none
RoleColor(role) ==
    IF role = ACCESS_OWNER THEN options.color_owner
    ELSE IF role = ACCESS_WRITER THEN options.color_writer
    ELSE IF role = ACCESS_READER THEN options.color_reader
    ELSE IF role = ACCESS_FREEBUSY THEN options.color_freebusy
    ELSE ""

\* the colour the stated precedence gives an event of a calendar
PrecedenceColor(ev, marked) ==
    IF marked THEN options.color_now_marker
    ELSE IF options.override_color /\ ev.colorId # "" THEN ansi_codes[ev.colorId]
    ELSE IF ev.gcalcli_cal.colorSpec # "" THEN ev.gcalcli_cal.colorSpec
    ELSE IF RoleColor(ev.gcalcli_cal.accessRole) # ""
         THEN RoleColor(ev.gcalcli_cal.accessRole)
    ELSE "default"

RECURSIVE RowsOfWeek(_, _, _)
RowsOfWeek(rows, k, seen) ==
    IF rows = <<>> THEN <<>>
    ELSE LET r == Head(rows)
             n == IF r.kind = "date" THEN seen + 1 ELSE seen
         IN (IF r.kind = "body" /\ n = k THEN <<r>> ELSE <<>>)
            \o RowsOfWeek(Tail(rows), k, n)

BodyRows(k) == RowsOfWeek(out, k, 0)

\* C3: with a column width below 1 nothing is printed and the body loop is
\* never entered
C3_FailsBeforeHeaders ==
    options.cal_width < 1 => (out = <<>> /\ pc \in {"call", "raised"})

\* C5: over one call the dividers inserted plus the event lines recoloured,
\* summed over all the weeks, are at most 1
C5_MarkerOncePerRender ==
    SumOver(returned, DividersOfWeek, Len(returned))
        + SumOver(returned, RecolouredOfWeek, Len(returned)) <= 1

\* C9 as stated: the Bucketizer returns as many buckets as visible columns
C9_BucketPerVisibleDay ==
    \A k \in 1..Len(returned) : Len(returned[k]) = VisibleColumns

\* the day of the j-th column of the k-th week of the call
ColumnDay(k, j) == start_datetime + ((k - 1) * 7 + (j - 1)) * Day

\* the event qualifies for the day that starts at the instant day: it
\* starts on that day, or it is an all-day event and the day is one of the
\* days from its start day to its last included day
QualifiesForDay(ev, day) ==
    \/ day <= ev.s /\ ev.s < day + Day
    \/ is_all_day(ev) /\ ev.s <= day /\ day < ev.e

\* C10: a column on whose day no event of the list qualifies has cal_width
\* blanks in every body row of that week; with an empty event list no call
\* raises, each finished week has a single body row and all its cells are
\* blank
C10_EmptyColumnBlank ==
    /\ \A k \in 1..Len(returned) :
          LET rows == BodyRows(k)
          IN \A j \in 1..VisibleColumns :
                (\A e \in 1..Len(caller_event_list) :
                    ~QualifiesForDay(caller_event_list[e], ColumnDay(k, j))) =>
                    \A n \in 1..Len(rows) :
                        /\ rows[n].cells[j].text = [c \in 1..options.cal_width |-> SP]
                        /\ Len(rows[n].cells[j].text) = options.cal_width
    /\ (pc # "call" /\ event_list = <<>>) =>
          /\ pc # "raised"
          /\ \A k \in 1..week_i : Len(BodyRows(k)) = 1
          /\ \A k \in 1..Len(returned) :
                LET rows == BodyRows(k)
                IN \A n \in 1..Len(rows) : \A j \in 1..VisibleColumns :
                      rows[n].cells[j].text = [c \in 1..options.cal_width |-> SP]

----------------------------------------------------------------------------
(* Properties of the cutter and the measurer *)

\* the first forced break of the text is at an offset within the budget
BreakWithin(t, w) == find(t, NL) > -1 /\ find(t, NL) <= w

\* neither the forced-break rule nor the whole-string rule applies
MustCut(t, w) == ~BreakWithin(t, w) /\ _printed_len(t) > w

\* the text has a first word, and it is wider than / at least as wide as w
FirstWordOver(t, w) == split(t) # <<>> /\ _printed_len(split(t)[1]) > w
FirstWordReaches(t, w) == split(t) # <<>> /\ _printed_len(split(t)[1]) >= w

\* width of the first n words joined by single spaces
JoinedWidth(words, n) == IF n = 0 THEN 0 ELSE SumWordLens(words, n) + (n - 1)

\* the largest number of leading whole words whose joined width is within w
WholeWords(words, w) ==
    CHOOSE n \in 0..Len(words) :
        /\ JoinedWidth(words, n) <= w
        /\ \A m \in (n + 1)..Len(words) : JoinedWidth(words, m) > w

\* the first index of the word at which the width walked reaches w
WalkIndex(word, w) ==
    CHOOSE k \in 1..Len(word) :
        /\ _printed_len(Take(word, k)) >= w
        /\ \A j \in 1..(k - 1) : _printed_len(Take(word, j)) < w

\* C11: the fitted width is at most the budget plus 1, and it is over the
\* budget only on the character walk of a first word, with a double-width
\* glyph at the cut
C11_FittedWidthBound ==
    (c_passes = 1 /\ c_ret.kind = "pair") =>
        /\ c_ret.print_len <= c_width + 1
        /\ c_ret.print_len > c_width =>
              /\ MustCut(c_text, c_width) /\ FirstWordReaches(c_text, c_width)
              /\ split(c_text)[1][c_ret.cut_idx] \in {WIDE, FULL}

\* C12: with no forced break within the budget, a text wider than the budget
\* and a first word that fits, the cut is the joined width and the joined
\* character length of the longest run of leading whole words within the
\* budget
C12_WholeWordPrefix ==
    (/\ c_passes = 1 /\ MustCut(c_text, c_width)
     /\ split(c_text) # <<>> /\ ~FirstWordOver(c_text, c_width)) =>
        LET words == split(c_text)
            n == WholeWords(words, c_width)
        IN c_ret = Pair(JoinedWidth(words, n), JoinLen(words, n))

\* C13: a first forced break at offset i <= budget gives (measure(text[:i]), i)
\* whatever follows; otherwise a text within the budget is returned whole
C13_BreakThenWhole ==
    c_passes = 1 =>
        LET i == find(c_text, NL)
        IN IF BreakWithin(c_text, c_width)
           THEN c_ret = Pair(_printed_len(SubSeq(c_text, 1, i)), i)
           ELSE _printed_len(c_text) <= c_width =>
                    c_ret = Pair(_printed_len(c_text), Len(c_text))

\* C13 witness: a break exactly at the budget with text after it
C13_Witness ==
    /\ c_passes = 1 /\ find(c_text, NL) = c_width /\ c_width >= 2
    /\ Len(c_text) > c_width + 1
    /\ c_ret = Pair(c_width, c_width)

\* C14: a first word wider than the budget is walked character by character
\* and cut at the first index where the width walked reaches the budget,
\* with that width; a text whose first word is narrower than the budget is
\* cut between words
C14_CharacterWalk ==
    (c_passes = 1 /\ MustCut(c_text, c_width)) =>
        LET words == split(c_text)
        IN /\ FirstWordOver(c_text, c_width) =>
                 LET k == WalkIndex(words[1], c_width)
                 IN c_ret = Pair(_printed_len(SubSeq(words[1], 1, k)), k)
           /\ (words # <<>> /\ ~FirstWordReaches(c_text, c_width)) =>
                 /\ c_ret.kind = "pair"
                 /\ \E n \in 0..Len(words) : c_ret.cut_idx = JoinLen(words, n)

\* C14 witness: the walk stops on a double-width glyph that crosses the budget
C14_Witness ==
    /\ c_passes = 1 /\ MustCut(c_text, c_width) /\ FirstWordOver(c_text, c_width)
    /\ c_ret.kind = "pair" /\ c_ret.print_len = c_width + 1 /\ c_ret.cut_idx >= 2

\* number of glyphs of a string that are Wide or Fullwidth
RECURSIVE DoubleGlyphs(_)
DoubleGlyphs(t) ==
    IF t = <<>> THEN 0
    ELSE (IF Head(t) \in {WIDE, FULL} THEN 1 ELSE 0) + DoubleGlyphs(Tail(t))

\* C15: the measure is 2 for every Wide or Fullwidth glyph plus 1 for every
\* other glyph: len(s) without double-width glyphs, 2 * len(s) with only those
C15_MeasureSum ==
    c_passes = 1 =>
        /\ c_ret = 2 * DoubleGlyphs(c_text) + (Len(c_text) - DoubleGlyphs(c_text))
        /\ DoubleGlyphs(c_text) = 0 => c_ret = Len(c_text)
        /\ DoubleGlyphs(c_text) = Len(c_text) => c_ret = 2 * Len(c_text)

\* C15 witness: a string that mixes Wide, Fullwidth, Halfwidth, Ambiguous and
\* Neutral glyphs has been measured
C15_Witness ==
    /\ c_passes = 1 /\ Len(c_text) = 5
    /\ {WIDE, FULL, HALF, AMBI, NL} \subseteq {c_text[k] : k \in 1..Len(c_text)}
    /\ c_ret = 7

----------------------------------------------------------------------------
(* Properties of the body loop and of the event list *)

\* the position in the event list of the event a line title belongs to, 0 for
\* a divider
SourceOf(title) ==
    IF \E n \in 1..Len(event_list) : LineTitle(event_list[n]) = title
    THEN CHOOSE n \in 1..Len(event_list) : LineTitle(event_list[n]) = title
    ELSE 0

\* in every bucket the bucketizer returned, the event lines are in the order
\* of their events in the list
ReceivedOrder ==
    \A k \in 1..Len(returned) : \A d \in 1..7 :
        \A p, q \in 1..Len(returned[k][d]) :
            (p < q /\ SourceOf(returned[k][d][p].title) # 0
                   /\ SourceOf(returned[k][d][q].title) # 0) =>
                SourceOf(returned[k][d][p].title) < SourceOf(returned[k][d][q].title)

\* one pass prints, in each visible column, a part of the front line of the
\* bucket in that line's colour, and leaves the bucket with the front line
\* gone or replaced by a later part of it in the same colour, the lines
\* behind it untouched
FrontLineFirst ==
    (pc = "Body" /\ pc' # "raised") =>
        \A j \in 1..VisibleColumns :
            week_events[j] # <<>> =>
                LET front == week_events[j][1]
                    cell == out'[Len(out')].cells[j]
                IN /\ cell.color = front.color
                   /\ \E k \in 0..Len(front.title) :
                         SubSeq(cell.text, 1, k) = SubSeq(front.title, 1, k)
                         /\ \A c \in (k + 1)..Len(cell.text) : cell.text[c] = SP
                   /\ \/ week_events'[j] = Tail(week_events[j])
                      \/ /\ week_events'[j] # <<>>
                         /\ Tail(week_events'[j]) = Tail(week_events[j])
                         /\ week_events'[j][1].color = front.color
                         /\ \E lo \in 2..Len(front.title) : \E hi \in lo..Len(front.title) :
                               week_events'[j][1].title = SubSeq(front.title, lo, hi)

\* C16: in each day column the lines are in the order of their events, and
\* each pass prints a part of the front line only: the remainder goes back to
\* the front of the bucket with the same colour, and the lines behind it
\* wait until it is drained
C16_ColumnOrder == [][ReceivedOrder /\ FrontLineFirst]_vars

\* C16 witness: a bucket of two lines in the middle of the body loop, the
\* first partly printed and the second still whole
C16_Witness ==
    /\ pc = "Body" /\ Len(returned) = week_i + 1
    /\ \E j \in 1..VisibleColumns :
          /\ Len(returned[week_i + 1][j]) = 2 /\ Len(week_events[j]) = 2
          /\ week_events[j][1].title # returned[week_i + 1][j][1].title
          /\ Head(week_events[j][1].title) # NL
          /\ week_events[j][2] = returned[week_i + 1][j][2]

\* C17: no step of a render call changes the caller's event list, and after
\* the started events are dropped from the local list no step changes that
\* list or an event in it
C17_EventsUntouched ==
    [][/\ caller_event_list' = caller_event_list
       /\ pc # "call" => event_list' = event_list]_vars

\* C17 witness: a call has finished that dropped started events from its
\* local list while the caller's list still has them
C17_Witness ==
    /\ pc = "done" /\ Len(caller_event_list) = 2
    /\ Len(event_list) < Len(caller_event_list)
    /\ Len(returned) = count

\* the k-th week of the call has a line of the event in one of its buckets
HasLine(k, ev) ==
    \E d \in 1..7 : \E p \in 1..Len(returned[k][d]) :
        returned[k][d][p].title = LineTitle(ev)

\* C18: for every week window of a call and every event the caller supplied,
\* the event has a line in the week's buckets exactly when it starts in the
\* window, or is all-day and its span, the end taken one day earlier,
\* overlaps the window
C18_WindowMembership ==
    pc # "call" =>
        \A k \in 1..Len(returned) : \A n \in 1..Len(caller_event_list) :
            HasLine(k, caller_event_list[n]) <=>
                Qualifies(caller_event_list[n],
                          start_datetime + (k - 1) * 7 * Day,
                          start_datetime + k * 7 * Day)

----------------------------------------------------------------------------
(* Properties of the Week Bucketizer: weekends and all-day events *)

\* the event starts on a Saturday or a Sunday
StartsOnWeekend(ev) == strftime_w(ev.s) \in {0, 6}

\* C19: with weekends hidden, an event that starts in the window on Monday to
\* Friday has its line in bucket 0 to 4 of its weekday; an event that starts
\* on Saturday or Sunday has no line in a visible bucket, and the hidden
\* buckets hold neither the divider nor a recoloured line
C19_WeekendDropped ==
    (WeekDone /\ ~options.cal_weekend) =>
        /\ \A n \in 1..Len(b_event_list) :
              LET ev == b_event_list[n]
              IN /\ (~StartsOnWeekend(ev) /\ ev.s >= b_start_dt /\ ev.s < b_end_dt) =>
                        LinesIn(b_week_events[strftime_w(ev.s)], LineTitle(ev)) = 1
                 /\ StartsOnWeekend(ev) =>
                        \A d \in 1..5 : LinesIn(b_week_events[d], LineTitle(ev)) = 0
        /\ \A d \in 6..7 :
              DividersIn(b_week_events[d]) = 0 /\ RecolouredIn(b_week_events[d]) = 0

\* C20: the line of an all-day event has its calendar's colour whatever now
\* is, and the marker of the window is taken only by an event that starts
\* after now or by a timed event whose span holds now
C20_AllDayKeepsColour ==
    WeekDone =>
        /\ \A n \in 1..Len(b_event_list) : \A d \in 1..7 :
              \A p \in 1..Len(b_week_events[d]) :
                 (/\ is_all_day(b_event_list[n])
                  /\ b_week_events[d][p].title = LineTitle(b_event_list[n])) =>
                     b_week_events[d][p].color = options.color_owner
        /\ b_now_marker_printed =>
              \E n \in 1..Len(b_event_list) :
                 LET ev == b_event_list[n]
                 IN /\ Qualifies(ev, b_start_dt, b_end_dt)
                    /\ \/ now < ev.s
                       \/ ~is_all_day(ev) /\ ev.s <= now /\ now <= ev.e

\* C20 witness: now is within an all-day event that keeps its colour, and the
\* marker went to the timed event after it
C20_Witness ==
    /\ WeekDone /\ Len(b_event_list) = 2
    /\ is_all_day(b_event_list[1])
    /\ b_event_list[1].s < now /\ now < b_event_list[1].e - Day
    /\ \E d \in 1..7 : \E p \in 1..Len(b_week_events[d]) :
          /\ b_week_events[d][p].title = LineTitle(b_event_list[1])
          /\ b_week_events[d][p].color = options.color_owner
    /\ SpansNow(b_event_list[2]) /\ MarkerColoured(b_event_list[2])

----------------------------------------------------------------------------
(* Properties of the body loop's rows and of the grid's row sequence *)

\* the cell is cal_width blanks in the border colour
IsBlankCell(cell) ==
    /\ cell.text = [c \in 1..(IF options.cal_width > 0 THEN options.cal_width ELSE 0) |-> SP]
    /\ cell.color = options.color_border

\* the cell starts with a prefix of the line text and has only blanks after it
IsPrefixCell(cell, line) ==
    /\ cell.color = line.color
    /\ \E k \in 0..Len(line.title) :
          /\ Len(cell.text) >= k
          /\ SubSeq(cell.text, 1, k) = SubSeq(line.title, 1, k)
          /\ \A c \in (k + 1)..Len(cell.text) : cell.text[c] = SP

\* one pass of the body loop: one more row, a cell per visible column, and
\* the week's loop ends exactly when every visible bucket was empty
OneRowPerPass ==
    pc = "Body" =>
        /\ Len(out') = Len(out) + 1
        /\ SubSeq(out', 1, Len(out)) = out
        /\ LET row == out'[Len(out')]
           IN /\ row.kind = "body"
              /\ Len(row.cells) = VisibleColumns
              /\ \A j \in 1..VisibleColumns :
                    IF week_events[j] = <<>> THEN IsBlankCell(row.cells[j])
                    ELSE IsPrefixCell(row.cells[j], week_events[j][1])
        /\ pc' \in {"Body", "WeekEnd"}
        /\ pc' = "WeekEnd" <=> \A j \in 1..VisibleColumns : week_events[j] = <<>>

\* C21: each pass of the body loop prints exactly one row with one cell per
\* visible column, a prefix of the front line for a bucket with lines and a
\* blank cell for an empty one, and the loop of a week ends on the first pass
\* that finds every visible bucket empty, not before
C21_OneRowPerPass == [][OneRowPerPass]_vars

\* C21 witness: the loop of a week has just ended after three or more passes;
\* the first row had text next to a blank cell and the last row is all blank
C21_Witness ==
    /\ pc = "WeekEnd" /\ options.cal_width >= 1
    /\ LET rows == BodyRows(week_i + 1)
       IN /\ Len(rows) >= 3
          /\ \E j1, j2 \in 1..VisibleColumns :
                /\ IsBlankCell(rows[1].cells[j1])
                /\ ~IsBlankCell(rows[2].cells[j2])
          /\ \A j \in 1..VisibleColumns : IsBlankCell(rows[Len(rows)].cells[j])

\* C22: whenever the cut of a front line reports a width within the column
\* width, the printed prefix measures that width and the cell, prefix plus
\* padding, measures exactly the column width
C22_CellWidth ==
    (IsFrontLine(c_text) /\ c_ret.kind = "pair" /\ c_ret.print_len <= c_width) =>
        /\ _printed_len(c_cell.printed) = c_ret.print_len
        /\ _printed_len(c_cell.printed \o c_cell.padding) = c_width

\* rows printed before the first date line
HeaderRows == IF cmd = "calm" THEN 5 ELSE 3

DividerArt == <<"lte", "crs", "rte">>
BottomArt == <<"llc", "bte", "lrc">>

\* the rows without their leading body rows
RECURSIVE SkipBody(_)
SkipBody(rows) ==
    IF rows # <<>> /\ Head(rows).kind = "body" THEN SkipBody(Tail(rows)) ELSE rows

\* the rows are n weeks: a date line, one or more body rows, then a divider
\* for every week but the last and the bottom border for the last
RECURSIVE WeeksWellFormed(_, _)
WeeksWellFormed(rows, n) ==
    IF n = 0 THEN rows = <<>>
    ELSE /\ Len(rows) >= 3
         /\ rows[1].kind = "date"
         /\ rows[2].kind = "body"
         /\ LET rest == SkipBody(Tail(rows))
            IN /\ rest # <<>>
               /\ Head(rest).kind = "border"
               /\ Head(rest).art = (IF n > 1 THEN DividerArt ELSE BottomArt)
               /\ WeeksWellFormed(Tail(rest), n - 1)

RowsWithArt(art, from) ==
    Cardinality({n \in from..Len(out) : out[n].kind = "border" /\ out[n].art = art})

\* C23: a finished call of N >= 1 weeks has printed the headers, then for
\* each week its date line and its body, a divider after each of the first
\* N - 1 weeks and the bottom border after the last: N - 1 dividers, one
\* bottom border, and the bottom border is the last row printed
C23_RowSequence ==
    /\ \A n \in 1..Len(out) :
          (out[n].kind = "border" /\ out[n].art = BottomArt) =>
              (n = Len(out) /\ pc = "done")
    /\ (pc = "done" /\ count >= 1) =>
          /\ Len(out) > HeaderRows
          /\ out[HeaderRows - 1].kind = "labels"
          /\ \A n \in 1..HeaderRows : out[n].kind \notin {"date", "body"}
          /\ WeeksWellFormed(Drop(out, HeaderRows), count)
          /\ RowsWithArt(DividerArt, HeaderRows + 1) = count - 1
          /\ RowsWithArt(BottomArt, 1) = 1
          /\ out[Len(out)].art = BottomArt

\* C23 witness: a finished call of two or more weeks, one of them with more
\* than one body row
C23_Witness ==
    /\ pc = "done" /\ count >= 2
    /\ \E k \in 1..count : Len(BodyRows(k)) >= 2
    /\ RowsWithArt(DividerArt, HeaderRows + 1) = count - 1

\* weeks of the call in which the event has a line
WeeksWithLine(ev) == {k \in 1..Len(returned) : HasLine(k, ev)}

\* C24: week k of a call is bucketized for [start + 7k days, start + 7(k+1)
\* days), the window moves by 7 days after each week, a finished call has
\* been through exactly `count` weeks, and an event that is not all-day has
\* a line in at most one week: the week whose window holds its start
C24_ConsecutiveWindows ==
    /\ pc = "DateRow" =>
          /\ start_week_datetime = start_datetime + week_i * 7 * Day
          /\ end_week_datetime = start_week_datetime + 7 * Day
          /\ Len(returned) = week_i
    /\ pc \in {"Body", "WeekEnd"} =>
          /\ start_week_datetime = start_datetime + (week_i + 1) * 7 * Day
          /\ end_week_datetime = start_week_datetime + 7 * Day
          /\ Len(returned) = week_i + 1
    /\ pc = "done" => (Len(returned) = count /\ week_i = count)
    /\ pc # "call" =>
          \A n \in 1..Len(event_list) :
              LET ev == event_list[n]
              IN ~is_all_day(ev) =>
                    /\ Cardinality(WeeksWithLine(ev)) <= 1
                    /\ \A k \in 1..Len(returned) :
                          HasLine(k, ev) <=>
                              /\ ev.s >= start_datetime + (k - 1) * 7 * Day
                              /\ ev.s < start_datetime + k * 7 * Day

\* C24 witness: a finished call of two or more weeks with a timed event at
\* the end of one week and one at the start of the next, each with a line in
\* its own week only
C24_Witness ==
    /\ pc = "done" /\ count >= 2 /\ Len(event_list) = 2
    /\ ~is_all_day(event_list[1]) /\ ~is_all_day(event_list[2])
    /\ \E k \in 1..(count - 1) :
          /\ WeeksWithLine(event_list[1]) = {k}
          /\ WeeksWithLine(event_list[2]) = {k + 1}

----------------------------------------------------------------------------
(* Properties of the month view *)

\* the month (1-based) the call was asked for
RequestedMonth == CHOOSE m \in 1..12 : MonthAbbr[m] = cur_month

\* C25: in a finished month view the week windows the call went through,
\* from the first week start of the grid, hold every day of the requested
\* month, whatever the two week options and the weekday of the 1st
C25_MonthCovered ==
    (cmd = "calm" /\ pc = "done") =>
        /\ start_datetime <= MonthStart(RequestedMonth)
        /\ start_week_datetime = start_datetime + count * 7 * Day
        /\ start_week_datetime >=
              MonthStart(RequestedMonth) + MonthLens[RequestedMonth] * Day

----------------------------------------------------------------------------
(* Properties of _retry_with_backoff *)

\* the response is a rate-limit error of the Calendar API: status 403 with
\* the reason rateLimitExceeded or userRateLimitExceeded
RateLimitError(o) ==
    /\ ~o.ok
    /\ o.code \in {"403", "\"403\""}
    /\ o.reason \in {"rateLimitExceeded", "userRateLimitExceeded"}

\* C26: the request is executed at most max_retries = 5 times; the call
\* returns the result of the first execution that succeeds; an HTTP error
\* that is not a rate-limit error is raised at once and ends the call; a
\* rate-limit error is followed by another attempt, and GcalcliError is
\* raised when all five attempts failed with rate-limit errors
C26_RetryContract ==
    /\ Len(r_log) <= 5
    /\ \A k \in 1..Len(r_log) :
          /\ r_log[k].ok =>
                /\ k = Len(r_log) /\ r_pc = "returned"
                /\ r_result = [kind |-> "value", attempt |-> k]
          /\ (~r_log[k].ok /\ ~RateLimitError(r_log[k])) =>
                /\ k = Len(r_log) /\ r_pc = "raised" /\ r_result.kind = "HttpError"
          /\ RateLimitError(r_log[k]) =>
                IF k < 5 THEN (k < Len(r_log) \/ r_pc = "loop")
                ELSE r_pc = "raised" /\ r_result.kind = "GcalcliError"
    /\ r_pc = "returned" => (r_log # <<>> /\ r_log[Len(r_log)].ok)

----------------------------------------------------------------------------
(* Properties of _delete_event *)

\* number of delete requests issued for the event
RequestsFor(id) == Cardinality({k \in 1..Len(d_requests) : d_requests[k] = id})

\* C27: a delete request is issued for an event only in expert mode or after
\* the answer "y" in either case; the empty answer and "n" go on without a
\* deletion, "q" exits with status 0 and any other answer with status 1,
\* both without a deletion; no event gets more than one delete request
C27_DeleteOnlyOnYes ==
    /\ \A n \in 1..Len(d_event_list) : RequestsFor(d_event_list[n].id) <= 1
    /\ \A k \in 1..Len(d_requests) :
          \E j \in 1..Len(d_log) :
              /\ d_log[j].id = d_requests[k]
              /\ d_expert \/ d_log[j].val \in {<<"y">>, <<"Y">>}
    /\ \A j \in 1..Len(d_log) :
          LET val == d_log[j].val
              n == RequestsFor(d_log[j].id)
              latest == j = Len(d_log)
          IN IF d_expert THEN n = 1 /\ ~d_log[j].asked
             ELSE IF val \in {<<>>, <<"n">>, <<"N">>}
                  THEN n = 0 /\ (latest => d_pc \in {"iterate", "returned"})
             ELSE IF val \in {<<"y">>, <<"Y">>} THEN n = 1
             ELSE IF val \in {<<"q">>, <<"Q">>}
                  THEN n = 0 /\ latest /\ d_pc = "exit" /\ d_status = "0"
             ELSE n = 0 /\ latest /\ d_pc = "exit" /\ d_status = "1"

\* C27 witness: two events were found; the first was deleted on the answer
\* "Y", the second kept on the answer "n", and the call returned
C27_Witness ==
    /\ d_pc = "returned" /\ ~d_expert /\ Len(d_log) = 2
    /\ d_log[1].val = <<"Y">> /\ d_log[2].val = <<"n">>
    /\ d_requests = <<d_log[1].id>>

----------------------------------------------------------------------------
(* Properties of _edit_event *)

\* the answers that edit one field other than the start and the length
FieldAnswers == {<<"t">>, <<"l">>, <<"d">>, <<"c">>, <<"r">>}

\* C28: after an answer that edits the title, the location, the
\* description, the colour or the reminders, the event's start and end are
\* what they were before the answer, and a save after only such answers
\* sends the start and the end the event came with
C28_StartEndKept ==
    /\ (e_pc = "prompt" /\ e_vals # <<>> /\ e_vals[Len(e_vals)] \in FieldAnswers) =>
          /\ e_event.start = e_prev.start
          /\ e_event.end = e_prev.end
    /\ (e_pc = "saved" /\ \A k \in 1..(Len(e_vals) - 1) : e_vals[k] \in FieldAnswers) =>
          /\ e_body.start = e_first.start
          /\ e_body.end = e_first.end

----------------------------------------------------------------------------
(* Properties of QuickAddEvent *)

\* C29: with exactly one calendar selected the call returns the event that
\* quickAdd created, whatever the reminders, the default-reminders option
\* and the url detail, unless a request itself failed; with any other
\* number of calendars it raises GcalcliError before any request is sent
C29_ReturnsCreated ==
    /\ (Len(q_cals) # 1 /\ q_pc # "call") =>
          (q_pc = "raised" /\ q_result = <<"GcalcliError">> /\ q_requests = <<>>)
    /\ (Len(q_cals) = 1 /\ q_pc = "raised") =>
          (q_requests # <<>> /\ q_result \in {<<"HttpError">>, <<"GcalcliError">>})
    /\ q_pc = "returned" => (q_event # <<>> /\ q_result = <<q_event[1].id>>)

----------------------------------------------------------------------------
(* Properties of _select_cals *)

\* positions of the calendars whose summary is the name
ExactMatches(name) ==
    {k \in 1..Len(s_all_cals) : s_all_cals[k].summary = name}

\* positions of the calendars whose summary holds the name, case ignored
RegexMatches(name) ==
    {k \in 1..Len(s_all_cals) :
        \E i \in 0..(Len(s_all_cals[k].summary) - Len(name)) :
            lower(SubSeq(s_all_cals[k].summary, i + 1, i + Len(name))) = lower(name)}

\* the positions of a set in increasing order
RECURSIVE Ascending(_)
Ascending(S) ==
    IF S = {} THEN <<>>
    ELSE LET m == CHOOSE x \in S : \A y \in S : x <= y
         IN <<m>> \o Ascending(S \ {m})

\* C30: after the turn of a name, if some summary equals the name the name
\* has added the first such calendar only, that calendar has the name's
\* colour and no other calendar's colorSpec was changed; if none equals it
\* the name has added every calendar it matches as a case-insensitive
\* regex, each with the name's colour, and no other calendar was changed
C30_ExactMatchDiscardsRegex ==
    (s_pc \in {"names", "done"} /\ s_n >= 1) =>
        LET cal_name == s_selected_names[s_n]
            exact == ExactMatches(cal_name.name)
            chosen == IF exact # {}
                      THEN {CHOOSE k \in exact : \A j \in exact : k <= j}
                      ELSE RegexMatches(cal_name.name)
        IN /\ s_matches = Ascending(chosen)
           /\ \A k \in 1..Len(s_all_cals) :
                 IF k \in chosen THEN s_all_cals[k].colorSpec = <<cal_name.color>>
                 ELSE s_all_cals[k].colorSpec = s_prev_cals[k].colorSpec

====
